---------------------------- MODULE Spec2Model ----------------------------
(***************************************************************************)
(* Audit & Verification Engine of the Better Compaction Protocol:          *)
(* context_auditor.py (extract / verify / score), context_autoarchive.py   *)
(* (phase_post: the live audit that appends to audit_history.jsonl) and    *)
(* context_rerunner.py (the reproducibility checker).                      *)
(*                                                                         *)
(* Text is modelled with TLA+ strings; Python's str methods used by the    *)
(* code (in, lower, replace, split, strip, rstrip, rsplit, startswith) are *)
(* operators computed character by character.  A float rate found/total is *)
(* the exact rational [num, den].                                          *)
(***************************************************************************)
EXTENDS Integers, Sequences, FiniteSets, TLC

VARIABLES
    clock,        \* wall clock, in seconds (timestamps of transcript records, now())
    projectDir,   \* TRUE when Claude's project directory of the workspace exists
    transcripts,  \* the project's *.jsonl files, in sorted name order: each a sequence of lines
    archiveDir,   \* TRUE when <project>/context_archive is a directory
    sessionFiles, \* the session_*.md files of the archive directory (indices into SessionFile)
    blacklist,    \* the topic blacklist of semantic_map.json (an index into Blacklists)
    history,      \* audit_history.jsonl: a sequence of lines
    reportsDir,   \* TRUE when <archive>/compaction_reports is a directory
    pending,      \* TRUE when ground_truth_pending.json exists
    reports,      \* the compaction_report_*.json files, oldest first
    rerunLedger,  \* audit_rerun_history.jsonl: a sequence of records
    last,         \* what the last step did: its exit status, what it printed, what it computed
    cmp           \* a direct call of compare_summaries: its two arguments and its result

vars == <<clock, projectDir, transcripts, archiveDir, sessionFiles, blacklist, history,
          reportsDir, pending, reports, rerunLedger, last, cmp>>

-----------------------------------------------------------------------------
(* Python str operations *)

UpperChars == "ABCDEFGHIJKLMNOPQRSTUVWXYZ"
LowerChars == "abcdefghijklmnopqrstuvwxyz"
Digits == "0123456789"
\* code point order of the characters the inputs use (sorted() compares code points)
CodePoints == " ()-./0123456789:ABCDEFGHIJKLMNOPQRSTUVWXYZ\\_abcdefghijklmnopqrstuvwxyz"

Min(a, b) == IF a <= b THEN a ELSE b
Char(s, i) == SubSeq(s, i, i)

\* the least element of a non-empty set of integers
Least(S) == CHOOSE x \in S : \A y \in S : x <= y
Greatest(S) == CHOOSE x \in S : \A y \in S : x >= y

\* F(x): the value x under a local name
With(x, F(_)) == F(x)

\* the least element of S, default when S is empty
LeastOr(S, default) == IF S = {} THEN default ELSE Least(S)
GreatestOr(S, default) == IF S = {} THEN default ELSE Greatest(S)

\* position of character c in s, 0 when absent
IndexIn(c, s) == LeastOr({i \in 1..Len(s) : Char(s, i) = c}, 0)

\* sub in s
Contains(s, sub) ==
    \E i \in 0..(Len(s) - Len(sub)) : SubSeq(s, i + 1, i + Len(sub)) = sub

\* s.startswith(p)
StartsWith(s, p) == Len(p) <= Len(s) /\ SubSeq(s, 1, Len(p)) = p

\* s[:n]
Prefix(s, n) == SubSeq(s, 1, Min(n, Len(s)))

RECURSIVE MapLower(_, _, _)
MapLower(s, lo, hi) ==
    IF lo > hi THEN ""
    ELSE IF lo = hi
         THEN With(IndexIn(Char(s, lo), UpperChars),
                   LAMBDA i : IF i = 0 THEN Char(s, lo) ELSE Char(LowerChars, i))
    ELSE MapLower(s, lo, (lo + hi) \div 2) \o MapLower(s, (lo + hi) \div 2 + 1, hi)

\* s.lower()
Lower(s) == MapLower(s, 1, Len(s))

\* first position >= from where sub occurs in s, 0 when none
FindFrom(s, sub, from) ==
    LeastOr({i \in from..(Len(s) - Len(sub) + 1) : SubSeq(s, i, i + Len(sub) - 1) = sub}, 0)

RECURSIVE ReplaceFrom(_, _, _, _)
ReplaceFrom(s, old, new, from) ==
    With(FindFrom(s, old, from),
         LAMBDA i : IF i = 0 THEN SubSeq(s, from, Len(s))
                    ELSE SubSeq(s, from, i - 1) \o new
                         \o ReplaceFrom(s, old, new, i + Len(old)))

\* s.replace(old, new), old non-empty
Replace(s, old, new) == ReplaceFrom(s, old, new, 1)

\* s.rstrip(chars)
RStrip(s, chars) ==
    SubSeq(s, 1, GreatestOr({i \in 1..Len(s) : IndexIn(Char(s, i), chars) = 0}, 0))

\* first position >= i of s whose character is not in chars, Len(s) + 1 when none
LStripPos(s, chars, i) ==
    LeastOr({j \in i..Len(s) : IndexIn(Char(s, j), chars) = 0}, IF i > Len(s) THEN i ELSE Len(s) + 1)

\* s.strip(): whitespace off both ends
Strip(s) ==
    With(RStrip(s, " "), LAMBDA r : SubSeq(r, LStripPos(r, " ", 1), Len(r)))

\* s.rsplit(c, 1)[-1]: what follows the last c, or all of s
AfterLast(s, c) ==
    SubSeq(s, GreatestOr({i \in 1..Len(s) : Char(s, i) = c}, 0) + 1, Len(s))

\* s.split(c)[0]: what precedes the first c, or all of s
BeforeFirst(s, c) ==
    With(IndexIn(c, s), LAMBDA i : IF i = 0 THEN s ELSE SubSeq(s, 1, i - 1))

RECURSIVE SplitFrom(_, _)
SplitFrom(s, from) ==
    With(LStripPos(s, " ", from),
         LAMBDA start :
             IF start > Len(s) THEN <<>>
             ELSE With(FindFrom(s, " ", start),
                       LAMBDA stop :
                           IF stop = 0 THEN <<SubSeq(s, start, Len(s))>>
                           ELSE <<SubSeq(s, start, stop - 1)>> \o SplitFrom(s, stop + 1)))

\* s.split(): the whitespace-separated words
Words(s) == SplitFrom(s, 1)

RECURSIVE DigitsOf(_)
DigitsOf(n) ==
    IF n < 10 THEN Char(Digits, n + 1) ELSE DigitsOf(n \div 10) \o Char(Digits, (n % 10) + 1)

\* f'{n}' for n >= 0
IntToStr(n) == DigitsOf(n)

\* a < b on str
StrLess(a, b) ==
    With(LeastOr({i \in 1..Min(Len(a), Len(b)) : Char(a, i) # Char(b, i)}, 0),
         LAMBDA i : IF i = 0 THEN Len(a) < Len(b)
                    ELSE IndexIn(Char(a, i), CodePoints) < IndexIn(Char(b, i), CodePoints))

RECURSIVE SortedStrs(_)
\* sorted(S) for a set of strings
SortedStrs(S) ==
    IF S = {} THEN <<>>
    ELSE With(CHOOSE x \in S : \A y \in S \ {x} : StrLess(x, y),
              LAMBDA m : <<m>> \o SortedStrs(S \ {m}))

RECURSIVE JoinFrom(_, _, _)
JoinFrom(parts, sep, i) ==
    IF i > Len(parts) THEN ""
    ELSE IF i = Len(parts) THEN parts[i]
    ELSE parts[i] \o sep \o JoinFrom(parts, sep, i + 1)

\* [f(x) for x in seq if keep(x)] helpers
RECURSIVE SelectIdx(_, _, _)
SelectIdx(seq, Keep(_), i) ==
    IF i > Len(seq) THEN <<>>
    ELSE (IF Keep(seq[i]) THEN <<seq[i]>> ELSE <<>>) \o SelectIdx(seq, Keep, i + 1)

Filter(seq, Keep(_)) == SelectIdx(seq, Keep, 1)

Range(seq) == {seq[i] : i \in 1..Len(seq)}

IsPrefixOf(a, b) == Len(a) <= Len(b) /\ SubSeq(b, 1, Len(a)) = a


RECURSIVE MapUpper(_, _, _)
MapUpper(s, lo, hi) ==
    IF lo > hi THEN ""
    ELSE IF lo = hi
         THEN With(IndexIn(Char(s, lo), LowerChars),
                   LAMBDA i : IF i = 0 THEN Char(s, lo) ELSE Char(UpperChars, i))
    ELSE MapUpper(s, lo, (lo + hi) \div 2) \o MapUpper(s, (lo + hi) \div 2 + 1, hi)

\* s.upper()
Upper(s) == MapUpper(s, 1, Len(s))

\* c.isalnum() for one character
IsAlnumChar(c) ==
    IndexIn(c, UpperChars) # 0 \/ IndexIn(c, LowerChars) # 0 \/ IndexIn(c, Digits) # 0

-----------------------------------------------------------------------------
(* Severity tables *)

\* the categories, in the order run_audit fills all_results
Categories ==
    <<"File Paths", "Tools Used", "User Quotes", "Topics", "Turn Counts", "Functions/Classes">>

CATEGORY_SEVERITY(category) ==
    CASE category = "File Paths" -> "CRITICAL"
      [] category = "Functions/Classes" -> "CRITICAL"
      [] category = "Tools Used" -> "MAJOR"
      [] category = "User Quotes" -> "MAJOR"
      [] category = "Topics" -> "MINOR"
      [] category = "Turn Counts" -> "INFO"
      [] OTHER -> "INFO"

\* every severity weighs the same
SeverityWeightFlat(severity) == 1

SEVERITY_WEIGHT(severity) ==
    CASE severity = "CRITICAL" -> 4
      [] severity = "MAJOR" -> 3
      [] severity = "MINOR" -> 2
      [] severity = "INFO" -> 1
      [] OTHER -> 1

-----------------------------------------------------------------------------
(* Inputs.  A summary text is given by what the extractors' regular        *)
(* expressions match in it (the raw matches, in text order); everything    *)
(* the extract_* functions do with a match is computed below.              *)

NoMatches ==
    [length |-> 0, paths |-> <<>>, words |-> {}, smartQuotes |-> <<>>, quotes |-> <<>>,
     bold |-> <<>>, phrases |-> <<>>, acronyms |-> <<>>, counts |-> <<>>,
     defs |-> <<>>, classes |-> <<>>]

SummaryText ==
    << \* 1: claims of every category; the turn count is wrong
       [NoMatches EXCEPT
          !.length = 412,
          !.paths = <<"/home/user/project/tool.py,", "/a/b">>,
          !.words = {"Read", "Bash", "Task"},
          !.quotes = <<"use a content-addressed cache", "use a content-addressed cache", "src/tool.py">>,
          !.bold = <<"Cache Design", "NOTE", "Summary">>,
          !.acronyms = <<"BCP", "JSON">>,
          !.counts = <<68>>,
          !.defs = <<"run_audit">>,
          !.classes = <<"Path", "Ledger">>],
       \* 2: a path only the turn content knows, a right turn count, a lost topic
       [NoMatches EXCEPT
          !.length = 230,
          !.paths = <<"C:\\proj\\notes.txt">>,
          !.words = {"Edit"},
          !.phrases = <<"Quantum Mango">>,
          !.counts = <<71>>],
       \* 3: nothing to extract
       [NoMatches EXCEPT !.length = 57],
       \* 4: one file claim and one function claim, both in the archive
       [NoMatches EXCEPT
          !.length = 120,
          !.paths = <<"/home/user/project/tool.py">>,
          !.defs = <<"run_audit">>] >>

\* session_*.md files the archive directory may hold: header metadata and turns
SessionFile ==
    << [name |-> "session_2026-01-05_aaaa1111.md",
        session_id |-> "aaaa1111-0000", turns |-> 71,
        topics |-> "cache, audit", tools_used |-> "Read, Edit",
        files_referenced |-> "tool.py",
        body |-> << [role |-> "user",
                     content |-> "we should use a content-addressed cache for this"],
                    [role |-> "claude",
                     content |-> "def run_audit(args): ran Bash, see C:/proj/notes.txt after 68 turns"] >>],
       [name |-> "session_2026-01-06_bbbb2222.md",
        session_id |-> "bbbb2222-0000", turns |-> 68,
        topics |-> "ledger", tools_used |-> "Bash",
        files_referenced |-> "",
        body |-> << [role |-> "user", content |-> "add a ledger class"],
                    [role |-> "claude", content |-> "class Ledger: pass"] >>],
       [name |-> "session_2026-01-05_aaaa1111.enriched.md",
        session_id |-> "aaaa1111-0000", turns |-> 71,
        topics |-> "cache, audit, design", tools_used |-> "Read, Edit, Bash",
        files_referenced |-> "/home/user/project/tool.py",
        body |-> << [role |-> "user",
                     content |-> "we should use a content-addressed cache for this"],
                    [role |-> "claude",
                     content |-> "def run_audit(args): ran Bash, see C:/proj/notes.txt after 68 turns"] >>] >>

\* sessionId values a transcript record may carry
SessionIds == <<"aaaa1111-0000-4000", "cccc3333-0000-4000", "">>

-----------------------------------------------------------------------------
(* Claim extraction *)

known_tools ==
    {"Read", "Write", "Edit", "Bash", "Glob", "Grep", "Task", "TodoWrite",
     "AskUserQuestion", "ExitPlanMode", "EnterPlanMode", "WebFetch", "WebSearch",
     "NotebookEdit", "Skill"}

extract_file_claims(text) ==
    SortedStrs({cleaned \in {RStrip(m, "/\\).,:;") : m \in Range(text.paths)} :
                   Len(cleaned) > 5})

extract_tool_claims(text) == SortedStrs(known_tools \cap text.words)

\* re.match(r'^[\w./\\:]+$', q)
LooksLikePath(q) ==
    \A i \in 1..Len(q) : IsAlnumChar(Char(q, i)) \/ IndexIn(Char(q, i), "_./\\:") # 0

QuoteKey(q) == Strip(Lower(Prefix(q, 40)))

RECURSIVE DedupQuotes(_, _, _)
DedupQuotes(quotes, i, seen) ==
    IF i > Len(quotes) THEN <<>>
    ELSE IF QuoteKey(quotes[i]) \in seen THEN DedupQuotes(quotes, i + 1, seen)
    ELSE <<quotes[i]>> \o DedupQuotes(quotes, i + 1, seen \cup {QuoteKey(quotes[i])})

extract_user_quotes(text) ==
    DedupQuotes(text.smartQuotes
                \o Filter(text.quotes, LAMBDA q : /\ ~StartsWith(q, "{")
                                                  /\ ~StartsWith(q, "[")
                                                  /\ ~Contains(q, "\\n")
                                                  /\ ~LooksLikePath(q)),
                1, {})

_is_formatting_artifact(t) ==
       \/ Contains(t, "\n") \/ Contains(t, "\r")
       \/ (Len(t) > 0 /\ 2 * Cardinality({i \in 1..Len(t) : IsAlnumChar(Char(t, i))}) < Len(t))
       \/ (Len(t) > 0 /\ IndexIn(Char(t, 1), ":-()[]{}|>") # 0)

section_headers ==
    {"primary request and intent", "key technical concepts", "files and code sections",
     "errors and fixes", "problem solving", "all user messages", "pending tasks",
     "current work", "optional next step", "analysis", "summary"}

skip_labels ==
    {"NOTE", "CRITICAL", "IMPORTANT", "SOLVED", "NOT FIXED", "ONGOING", "MODIFIED",
     "CREATED", "READ", "GENERATED", "BUG", "COMPLETE", "WHAT", "WHY", "HOW", "FIX",
     "ERROR", "FIXED", "DEFERRED", "IN", "ADD", "JUST", "ONLY", "CHANGE"}

skip_acr ==
    {"OK", "ID", "VS", "IE", "EG", "IF", "OR", "IS", "IT", "DO", "AS", "ON", "TO", "AT",
     "OF", "NO", "UP", "SO", "BE", "BY", "AM", "AN", "PC", "IN",
     "NOT", "THE", "AND", "FOR", "ALL", "HAS", "WAS", "GET", "SET", "PUT", "API", "CLI",
     "URL", "SQL", "ADD", "BUT", "CAN", "DID", "HAD", "HER", "HIS", "HIM", "HOW", "ITS",
     "LET", "MAY", "NEW", "NOW", "OLD", "OUR", "OWN", "RAN", "SAY", "SHE", "TRY", "USE",
     "WAY", "WHO", "WIN", "YET", "ANY", "FEW", "GOT", "NOR", "RUN", "TWO",
     "JSON", "HTML", "TEXT", "FILE", "PATH", "UUID", "NULL", "TRUE", "ARGS", "HTTP",
     "SELF", "NONE", "JUST", "ONLY", "ALSO", "BACK", "BEEN", "BOTH", "CALL", "COME",
     "DONE", "EACH", "EVEN", "FIND", "FROM", "GAVE", "GOES", "GONE", "GOOD", "HAVE",
     "HERE", "INTO", "KEEP", "KNOW", "LAST", "LEFT", "LIKE", "LIST", "LOOK", "MADE",
     "MAKE", "MANY", "MORE", "MOST", "MUCH", "MUST", "NAME", "NEED", "NEXT", "ONCE",
     "OVER", "PART", "SAME", "SHOW", "SIDE", "SOME", "SUCH", "SURE", "TAKE", "TELL",
     "THAN", "THAT", "THEM", "THEN", "THEY", "THIS", "TOOK", "VERY", "WANT", "WELL",
     "WENT", "WERE", "WHAT", "WHEN", "WILL", "WITH", "WORK", "YOUR",
     "FALSE", "ABOUT", "ABOVE", "AFTER", "AGAIN", "BEING", "BELOW", "COULD", "EVERY",
     "FIRST", "FOUND", "NEVER", "OTHER", "SHALL", "SINCE", "STILL", "THEIR", "THERE",
     "THESE", "THINK", "THOSE", "THREE", "UNDER", "UNTIL", "WHERE", "WHICH", "WHILE",
     "WHOSE", "WOULD", "SHOULD", "THROUGH", "BEFORE", "BETWEEN", "BECAUSE", "DURING",
     "WITHOUT", "ALREADY", "ANOTHER", "ALWAYS", "APPEAR", "CHANGE", "DISCUSSED",
     "IDENTIFIED", "PREVIOUS", "UPDATED", "UNLESS",
     "CREATED", "MODIFIED", "GENERATED", "MEMORY", "README", "UTF", "STDERR", "STDOUT",
     "TYPE", "LOCAL"}

\* re.match(r'^Message\s+\d+', term)
IsMessageLabel(term) ==
    /\ StartsWith(term, "Message ")
    /\ \E rest \in {SubSeq(term, LStripPos(term, " ", 8), Len(term))} :
           Len(rest) > 0 /\ IndexIn(Char(rest, 1), Digits) # 0

\* re.match(r'^(Message|Session|Turn|Step|Phase|Option)\s', phrase)
IsStructureLabel(phrase) ==
    \E w \in {"Message", "Session", "Turn", "Step", "Phase", "Option"} :
        StartsWith(phrase, w \o " ")

\* the upper-cased words of the 'blacklist' list of semantic_map.json
_load_blacklist(semantic_map) == {Upper(word) : word \in semantic_map}

\* semantic_map: the blacklist semantic_map.json holds when the function is called
extract_topic_claims(text, semantic_map) ==
    With(_load_blacklist(semantic_map), LAMBDA user_blacklist :
        SortedStrs(
            \* bold / key terms
            {term \in {Strip(m) : m \in Range(text.bold)} :
                /\ \E upper \in {Upper(term)} :
                       upper \notin skip_labels /\ upper \notin user_blacklist
                /\ Lower(term) \notin section_headers
                /\ ~IsMessageLabel(term)
                /\ ~Contains(term, "/") /\ ~Contains(term, "\\")
                /\ ~_is_formatting_artifact(term)
                /\ Len(term) > 3}
            \* capitalized multi-word phrases
            \cup {phrase \in {Strip(m) : m \in Range(text.phrases)} :
                /\ Lower(phrase) \notin section_headers
                /\ Upper(phrase) \notin user_blacklist
                /\ ~IsStructureLabel(phrase)
                /\ ~_is_formatting_artifact(phrase)
                /\ Len(phrase) > 5}
            \* acronyms
            \cup {acr \in Range(text.acronyms) : acr \notin (skip_acr \cup user_blacklist)}))

extract_turn_count_claims(text) == text.counts

extract_function_claims(text) ==
    SortedStrs(Range(text.defs)
               \cup {n \in Range(text.classes) : n \notin {"Task", "Path", "Counter"}})

-----------------------------------------------------------------------------
(* Verification *)

RECURSIVE MapFrom(_, _, _)
MapFrom(seq, F(_), i) ==
    IF i > Len(seq) THEN <<>> ELSE <<F(seq[i])>> \o MapFrom(seq, F, i + 1)

\* [F(x) for x in seq]
MapSeq(seq, F(_)) == MapFrom(seq, F, 1)

RECURSIVE SplitOnFrom(_, _, _)
SplitOnFrom(s, c, from) ==
    With(FindFrom(s, c, from),
         LAMBDA stop : IF stop = 0 THEN <<SubSeq(s, from, Len(s))>>
                       ELSE <<SubSeq(s, from, stop - 1)>> \o SplitOnFrom(s, c, stop + 1))

\* f.replace('\\\\', '/').replace('\\', '/').lower()
NormPath(f) == Lower(Replace(Replace(f, "\\\\", "/"), "\\", "/"))

\* a file check without the filename-only retry
verify_files_full_path(claimed_files, archive_meta) ==
    MapSeq(claimed_files,
           LAMBDA f : [claim |-> f,
                       status |-> IF Contains(NormPath(archive_meta.files_referenced),
                                              NormPath(f))
                                  THEN "FOUND" ELSE "MISSING"])

verify_files(claimed_files, archive_meta) ==
    With(NormPath(archive_meta.files_referenced),
         LAMBDA archive_norm :
             MapSeq(claimed_files,
                    LAMBDA f :
                        [claim |-> f,
                         status |-> IF \E f_norm \in {NormPath(f)} :
                                       \E fname \in {AfterLast(RStrip(f_norm, "/"), "/")} :
                                          \/ Contains(archive_norm, f_norm)
                                          \/ (Len(fname) > 3
                                              /\ Contains(archive_norm, fname))
                                    THEN "FOUND" ELSE "MISSING"]))

verify_tools(claimed_tools, archive_meta) ==
    With({Strip(t) : t \in Range(SplitOnFrom(archive_meta.tools_used, ",", 1))},
         LAMBDA archive_tools :
             MapSeq(claimed_tools,
                    LAMBDA tool :
                        [claim |-> tool,
                         status |-> IF tool \in archive_tools THEN "FOUND" ELSE "MISSING"]))

\* ' '.join(t['content'] for t in turns if t['role'] == role), or of every turn
TurnText(turns, roles) ==
    JoinFrom(MapSeq(Filter(turns, LAMBDA t : t.role \in roles), LAMBDA t : t.content),
             " ", 1)

\* a quote check that knows the exact match only
QuoteFoundExact(user_text, q_lower) == Contains(user_text, q_lower)

\* one quote against the user turns: exact match, first 40 characters, or at least 60% of
\* its words longer than 4 characters
QuoteFound(user_text, q_lower) ==
    \/ Contains(user_text, q_lower)
    \/ \E prefix \in {Strip(Prefix(q_lower, 40))} :
           Len(prefix) > 10 /\ Contains(user_text, prefix)
    \/ \E words \in {Filter(Words(q_lower), LAMBDA w : Len(w) > 4)} :
       \E hits \in {Cardinality({i \in 1..Len(words) : Contains(user_text, words[i])})} :
           Len(words) > 0 /\ hits >= 1 /\ 10 * hits >= 6 * Len(words)

verify_quotes(quotes, turns) ==
    With(Lower(TurnText(turns, {"user"})),
         LAMBDA user_text :
             MapSeq(quotes,
                    LAMBDA q :
                        [claim |-> Prefix(q, 80) \o (IF Len(q) > 80 THEN "..." ELSE ""),
                         status |-> IF QuoteFound(user_text, Lower(q))
                                    THEN "FOUND" ELSE "MISSING"]))

verify_topics(claimed_topics, archive_meta) ==
    With(Lower(archive_meta.topics),
         LAMBDA archive_topics :
             MapSeq(claimed_topics,
                    LAMBDA topic :
                        [claim |-> topic,
                         status |-> IF \E t_lower \in {Lower(topic)} :
                                          \/ Contains(archive_topics, t_lower)
                                          \/ \E w \in Range(Words(t_lower)) :
                                                 Len(w) > 3 /\ Contains(archive_topics, w)
                                    THEN "FOUND" ELSE "MISSING"]))

\* a turn-count check that reports a wrong count as MISSING
verify_turn_counts_missing(claimed_counts, archive_meta) ==
    MapSeq(claimed_counts,
           LAMBDA count :
               [claim |-> IntToStr(count) \o " turns",
                status |-> IF count = archive_meta.turns THEN "FOUND" ELSE "MISSING"])

verify_turn_counts(claimed_counts, archive_meta) ==
    MapSeq(claimed_counts,
           LAMBDA count :
               [claim |-> IntToStr(count) \o " turns",
                status |-> IF count = archive_meta.turns THEN "FOUND"
                           ELSE "MISMATCH (archive: " \o IntToStr(archive_meta.turns)
                                \o " turns)"])

verify_functions(claimed_functions, turns) ==
    With(TurnText(turns, {"user", "claude"}),
         LAMBDA all_text :
             MapSeq(claimed_functions,
                    LAMBDA name :
                        [claim |-> IF IndexIn(Char(name, 1), UpperChars) = 0
                                   THEN "def " \o name \o "()" ELSE "class " \o name,
                         status |-> IF Contains(all_text, name)
                                    THEN "FOUND" ELSE "MISSING"]))

\* claim -> found in the full turn content
deep_search_missing(missing_claims, turns) ==
    With(Lower(TurnText(turns, {"user", "claude"})),
         LAMBDA all_text :
             [claim \in Range(missing_claims) |->
                 \E key \in {RStrip(Replace(Lower(claim), "\\", "/"), "/")} :
                     IF Contains(key, "/") \/ Contains(key, ":")
                     THEN \E fname \in {AfterLast(RStrip(key, "/"), "/")} :
                              Len(fname) > 3 /\ Contains(all_text, fname)
                     ELSE Contains(all_text, key)])

\* for r in results: if r['status'] == 'MISSING' and found_deep.get(r['claim'], False)
DeepUpgrade(r, found_deep) ==
    IF r.status = "MISSING" /\ r.claim \in DOMAIN found_deep /\ found_deep[r.claim]
    THEN [r EXCEPT !.status = "FOUND (deep)"]
    ELSE r

\* a deep pass that looks up every claim not FOUND and marks every hit
DeepPassLoose(results, turns) ==
    With(deep_search_missing(MapSeq(Filter(results, LAMBDA r : r.status # "FOUND"),
                                    LAMBDA r : r.claim), turns),
         LAMBDA found_deep :
             MapSeq(results, LAMBDA r : IF r.status # "FOUND" /\ r.claim \in DOMAIN found_deep
                                           /\ found_deep[r.claim]
                                        THEN [r EXCEPT !.status = "FOUND (deep)"]
                                        ELSE r))

\* the deep-search loop of run_audit and phase_post, over one category's results
DeepPass(results, turns) ==
    With(MapSeq(Filter(results, LAMBDA r : r.status = "MISSING"), LAMBDA r : r.claim),
         LAMBDA missing :
             IF Len(missing) > 0
             THEN With(deep_search_missing(missing, turns),
                       LAMBDA found_deep : MapSeq(results, LAMBDA r : DeepUpgrade(r, found_deep)))
             ELSE results)

\* the dict {category: F(category)} over the six categories
PerCategory(F(_)) ==
    ("File Paths" :> F("File Paths")) @@ ("Tools Used" :> F("Tools Used"))
    @@ ("User Quotes" :> F("User Quotes")) @@ ("Topics" :> F("Topics"))
    @@ ("Turn Counts" :> F("Turn Counts")) @@ ("Functions/Classes" :> F("Functions/Classes"))

\* extract and verify: all_results before the deep pass
VerifyAll(text, file, semantic_map) ==
    ("File Paths" :> verify_files(extract_file_claims(text), file))
    @@ ("Tools Used" :> verify_tools(extract_tool_claims(text), file))
    @@ ("User Quotes" :> verify_quotes(extract_user_quotes(text), file.body))
    @@ ("Topics" :> verify_topics(extract_topic_claims(text, semantic_map), file))
    @@ ("Turn Counts" :> verify_turn_counts(extract_turn_count_claims(text), file))
    @@ ("Functions/Classes" :> verify_functions(extract_function_claims(text), file.body))

\* if args.deep: the deep pass over every category of all_results
DeepAll(verified, turns, deep) ==
    IF deep THEN PerCategory(LAMBDA c : DeepPass(verified[c], turns)) ELSE verified

\* all_results as run_audit returns it (deep: the --deep flag; phase_post always deep)
AllResults(text, file, semantic_map, deep) ==
    DeepAll(VerifyAll(text, file, semantic_map), file.body, deep)

-----------------------------------------------------------------------------
(* Scoring *)

RECURSIVE GCD(_, _)
GCD(a, b) == IF b = 0 THEN a ELSE GCD(b, a % b)

\* the float n / d, d > 0, as a rational in lowest terms
Ratio(n, d) == With(GCD(n, d), LAMBDA g : [num |-> n \div g, den |-> d \div g])

\* the float 0.0
NoRate == Ratio(0, 1)

\* the float 1.0
One == Ratio(1, 1)

\* a provenance that calls every found claim a header match
ClaimLocationHeader(status) ==
    IF StartsWith(status, "FOUND") THEN "header" ELSE "none"

\* location of a claim record: where its status was established
ClaimLocation(status) ==
    IF StartsWith(status, "FOUND")
    THEN (IF Contains(status, "deep") THEN "deep" ELSE "header")
    ELSE "none"

\* status normalised for JSON
JsonStatus(status) ==
    IF StartsWith(status, "FOUND") THEN "FOUND" ELSE BeforeFirst(status, " ")

CountStatus(results, Is(_)) == Cardinality({i \in 1..Len(results) : Is(results[i].status)})

IsFound(status) == StartsWith(status, "FOUND")
IsMissing(status) == ~StartsWith(status, "FOUND") /\ status = "MISSING"
IsMismatch(status) == ~StartsWith(status, "FOUND") /\ status # "MISSING"

\* category stats whose rate is found / max(total, 1)
CategoryStatsDivided(category, results) ==
    With(CountStatus(results, IsFound), LAMBDA found :
        [total |-> Len(results), found |-> found,
         missing |-> CountStatus(results, IsMissing),
         mismatched |-> CountStatus(results, IsMismatch),
         rate |-> Ratio(found, IF Len(results) > 0 THEN Len(results) ELSE 1),
         severity |-> CATEGORY_SEVERITY(category)])

CategoryStats(category, results) ==
    With(CountStatus(results, IsFound), LAMBDA found :
    With(CountStatus(results, IsMissing), LAMBDA missing :
    With(CountStatus(results, IsMismatch), LAMBDA mismatch :
    With(found + missing + mismatch, LAMBDA total :
        [total |-> total, found |-> found, missing |-> missing, mismatched |-> mismatch,
         rate |-> IF total > 0 THEN Ratio(found, total) ELSE One,
         severity |-> CATEGORY_SEVERITY(category)]))))

CategoryClaims(category, results) ==
    MapSeq([i \in 1..Len(results) |-> i],
           LAMBDA i : [id |-> Lower(Char(BeforeFirst(category, "/"), 1)) \o "-" \o IntToStr(i),
                       category |-> category,
                       claim |-> results[i].claim,
                       status |-> JsonStatus(results[i].status),
                       severity |-> CATEGORY_SEVERITY(category),
                       location |-> ClaimLocation(results[i].status)])

RECURSIVE SumOver(_, _, _)
SumOver(seq, F(_), i) == IF i > Len(seq) THEN 0 ELSE F(seq[i]) + SumOver(seq, F, i + 1)

RECURSIVE ConcatOver(_, _, _)
ConcatOver(seq, F(_), i) ==
    IF i > Len(seq) THEN <<>> ELSE F(seq[i]) \o ConcatOver(seq, F, i + 1)

\* a run summary that leaves the mismatched claims out of its total
SummaryWithoutMismatch(categories) ==
    With(SumOver(Categories, LAMBDA c : categories[c].found, 1), LAMBDA total_found :
    With(SumOver(Categories, LAMBDA c : categories[c].missing, 1), LAMBDA total_missing :
        [total |-> total_found + total_missing, found |-> total_found,
         missing |-> total_missing,
         mismatched |-> SumOver(Categories, LAMBDA c : categories[c].mismatched, 1),
         rate |-> IF total_found + total_missing > 0
                  THEN Ratio(total_found, total_found + total_missing) ELSE One,
         severity_weighted_rate |-> One]))

\* the 'summary' dict of a structured result: the totals over 'categories'
SummaryOf(categories) ==
    With(SumOver(Categories, LAMBDA c : categories[c].found, 1), LAMBDA total_found :
    With(SumOver(Categories, LAMBDA c : categories[c].missing, 1), LAMBDA total_missing :
    With(SumOver(Categories, LAMBDA c : categories[c].mismatched, 1), LAMBDA total_mismatch :
    With(total_found + total_missing + total_mismatch, LAMBDA total :
    With(SumOver(Categories,
                 LAMBDA c : categories[c].found * SEVERITY_WEIGHT(categories[c].severity), 1),
         LAMBDA weighted_found :
    With(SumOver(Categories,
                 LAMBDA c : categories[c].total * SEVERITY_WEIGHT(categories[c].severity), 1),
         LAMBDA weighted_total :
        [total |-> total, found |-> total_found, missing |-> total_missing,
         mismatched |-> total_mismatch,
         rate |-> IF total > 0 THEN Ratio(total_found, total) ELSE One,
         severity_weighted_rate |->
             IF weighted_total > 0 THEN Ratio(weighted_found, weighted_total)
             ELSE One]))))))

\* timestamp: summary_info's timestamp (0 when it has none); now: datetime.now()
build_structured_results(all_results, archive_meta, summary_info, now) ==
    With(PerCategory(LAMBDA c : CategoryStats(c, all_results[c])),
         LAMBDA categories :
             [timestamp |-> IF summary_info.timestamp # 0 THEN summary_info.timestamp ELSE now,
              session_id |-> archive_meta.session_id,
              archive_file |-> archive_meta.name,
              archive_turns |-> archive_meta.turns,
              summary_length |-> summary_info.length,
              summary |-> SummaryOf(categories),
              categories |-> categories,
              claims |-> ConcatOver(Categories,
                                    LAMBDA c : CategoryClaims(c, all_results[c]), 1)])

-----------------------------------------------------------------------------
(* Bounds *)

MaxLines == 2       \* transcript lines (Spec)
MaxRuns == 2        \* records of audit_history.jsonl (Spec)
MaxTorn == 1        \* unparseable lines of audit_history.jsonl (Spec)
MaxFileLines == 3   \* lines of a file handed to a line parser (SpecCmp)
MaxReruns == 1      \* rerun batches saved (Spec, SpecRerun)
AuditLines == 2     \* transcript lines (SpecAudit)
AuditRuns == 1      \* lines of audit_history.jsonl (SpecAudit)
RerunLines == 2     \* transcript lines (SpecRerun)
MaxCount == 2       \* claims of a summary handed to compare_summaries (SpecCmp)
RerunRuns == 2      \* lines of audit_history.jsonl (SpecRerun)
Tick == 7           \* seconds between two transcript records

-----------------------------------------------------------------------------
(* Transcripts and the archive directory *)

\* the blacklists semantic_map.json may hold
Blacklists == << {}, {"cache design"} >>

\* the compaction summaries a session may write to its transcript: the summary text, the
\* record's sessionId, and whether the record carries a timestamp
Compactions ==
    << [text |-> 1, sid |-> 1, stamped |-> TRUE],
       [text |-> 4, sid |-> 2, stamped |-> TRUE],
       [text |-> 2, sid |-> 3, stamped |-> FALSE],
       [text |-> 3, sid |-> 1, stamped |-> TRUE] >>

\* a transcript line holding compaction summary k, written at time now
SummaryLine(k, now) ==
    [kind |-> "summary", text |-> Compactions[k].text,
     session_id |-> SessionIds[Compactions[k].sid],
     timestamp |-> IF Compactions[k].stamped THEN now ELSE 0]

\* a line that is not valid JSON
TornLine == [kind |-> "torn"]

\* a line cut short inside a multi-byte character: its bytes are not valid UTF-8
UndecodableLine == [kind |-> "undecodable"]

\* open(path, 'r', encoding='utf-8') and the iteration over its lines: every line of
\* the file decodes; otherwise the iteration raises UnicodeDecodeError
Utf8Decodes(lines) == \A i \in 1..Len(lines) : lines[i].kind # "undecodable"

\* the compaction summaries of one transcript file, in line order
find_compaction_summaries(lines) ==
    MapSeq(Filter([i \in 1..Len(lines) |-> i], LAMBDA i : lines[i].kind = "summary"),
           LAMBDA i : [text |-> lines[i].text, timestamp |-> lines[i].timestamp,
                       session_id |-> lines[i].session_id, line |-> i])

EndsWith(s, suffix) ==
    Len(suffix) <= Len(s) /\ SubSeq(s, Len(s) - Len(suffix) + 1, Len(s)) = suffix

\* the names of all session files, sorted (computed once)
SortedNames == SortedStrs({SessionFile[f].name : f \in 1..Len(SessionFile)})

\* f.name.replace('.enriched.md', '.md') of every session file (computed once)
BaseNames == MapSeq(SessionFile, LAMBDA sf : Replace(sf.name, ".enriched.md", ".md"))

\* f.name.endswith('.enriched.md') of every session file (computed once)
EnrichedNames == MapSeq(SessionFile, LAMBDA sf : EndsWith(sf.name, ".enriched.md"))

\* session files of the archive, the enriched version preferred, sorted by name
list_session_files(present) ==
    With({f \in present :
             EnrichedNames[f]
             \/ ~\E g \in present : EnrichedNames[g] /\ BaseNames[g] = BaseNames[f]},
         LAMBDA kept :
             MapSeq(Filter(SortedNames, LAMBDA n : \E f \in kept : SessionFile[f].name = n),
                    LAMBDA n : CHOOSE f \in kept : SessionFile[f].name = n))

\* a target selection that falls back to the first known session file when the archive
\* holds none
SelectTargetStale(session_files, session_id_hint) ==
    With({i \in 1..Len(session_files) :
             Contains(SessionFile[session_files[i]].name, Prefix(session_id_hint, 8))},
         LAMBDA hits :
             IF session_id_hint # "" /\ hits # {} THEN session_files[Least(hits)]
             ELSE IF Len(session_files) > 0 THEN session_files[Len(session_files)]
             ELSE 1)

\* a target selection that takes the last session file whatever the hint
SelectTargetLast(session_files, session_id_hint) ==
    IF Len(session_files) > 0 THEN session_files[Len(session_files)] ELSE 0

\* the target session file: the first whose name holds the hint's first 8 characters,
\* else the last one; 0 when there is none
SelectTarget(session_files, session_id_hint) ==
    With({i \in 1..Len(session_files) :
             Contains(SessionFile[session_files[i]].name, Prefix(session_id_hint, 8))},
         LAMBDA hits :
             IF session_id_hint # "" /\ hits # {} THEN session_files[Least(hits)]
             ELSE IF Len(session_files) > 0 THEN session_files[Len(session_files)]
             ELSE 0)

\* all_results of every (summary text, session file, blacklist, deep flag), computed once
AuditTable ==
    <<>> \o [t \in 1..Len(SummaryText) |->
    <<>> \o [f \in 1..Len(SessionFile) |->
    <<>> \o [b \in 1..Len(Blacklists) |->
    <<>> \o [d \in 1..2 |->
        AllResults(SummaryText[t], SessionFile[f], Blacklists[b], d = 2)]]]]

\* all_results of the audit of summary text t against session file f
Audited(t, f, b, deep) == AuditTable[t][f][b][IF deep THEN 2 ELSE 1]

\* build_structured_results of every audit, computed once (the timestamp is filled in later)
StructuredTable ==
    <<>> \o [t \in 1..Len(SummaryText) |->
    <<>> \o [f \in 1..Len(SessionFile) |->
    <<>> \o [b \in 1..Len(Blacklists) |->
    <<>> \o [d \in 1..2 |->
        build_structured_results(AuditTable[t][f][b][d], SessionFile[f],
            [timestamp |-> 0, length |-> SummaryText[t].length], 0)]]]]

\* build_structured_results(all_results, archive_meta, summary_info) at time now, for the
\* audit of summary text t against session file f
Structured(t, f, b, deep, timestamp, now) ==
    [StructuredTable[t][f][b][IF deep THEN 2 ELSE 1]
        EXCEPT !.timestamp = IF timestamp # 0 THEN timestamp ELSE now]

-----------------------------------------------------------------------------
(* audit_history.jsonl *)

\* a ledger line holding the JSON of rec
RecordLine(rec) == [kind |-> "record", rec |-> rec]

\* the parseable records of the ledger, in file order; other lines are skipped
load_audit_history(lines) ==
    MapSeq(Filter(lines, LAMBDA l : l.kind = "record"), LAMBDA l : l.rec)

\* open(path, 'w').write(line)
Overwrite(lines, line) == <<line>>

\* open(path, 'a').write(line)
AppendLine(lines, line) == Append(lines, line)

\* structured['run'] = len(history)
RunNumberFromZero(hist) == Len(hist)

\* structured['run'] = len(history) + 1
RunNumber(hist) == Len(hist) + 1

\* d.get(key, default)
Get(d, key, default) == IF key \in DOMAIN d THEN d[key] ELSE default

\* round(r * 100) of the float num/den, ties to even (exact for the rates the inputs give)
RoundPct(r) ==
    With((100 * r.num) \div r.den, LAMBDA q :
    With(2 * ((100 * r.num) % r.den), LAMBDA twice :
        IF twice < r.den THEN q
        ELSE IF twice > r.den THEN q + 1
        ELSE IF q % 2 = 0 THEN q ELSE q + 1))

\* a trend that lists the current run first
PostTrendNewestFirst(hist, structured) ==
    <<RoundPct(structured.summary.rate)>>
    \o MapSeq(hist, LAMBDA h : RoundPct(Get(Get(h, "summary", <<>>), "rate", Ratio(0, 1))))

\* phase_post: the trend from history plus the current run
PostTrend(hist, structured) ==
    MapSeq(hist, LAMBDA h : RoundPct(Get(Get(h, "summary", <<>>), "rate", Ratio(0, 1))))
    \o <<RoundPct(structured.summary.rate)>>

\* phase_post: categories that dropped more than 5 points since the previous run
PostRegressions(hist, structured) ==
    IF hist = <<>> THEN <<>>
    ELSE With(Get(hist[Len(hist)], "categories", <<>>),
              LAMBDA prev_cats :
                  MapSeq(Filter(Categories, LAMBDA cat :
                             /\ cat \in DOMAIN prev_cats
                             /\ RoundPct(structured.categories[cat].rate)
                                    < RoundPct(prev_cats[cat].rate) - 5),
                         LAMBDA cat : [category |-> cat,
                                       previous |-> RoundPct(prev_cats[cat].rate),
                                       current |-> RoundPct(structured.categories[cat].rate)]))

\* a comparison that also holds of two equal rates
RateLessOrEqual(a, b) == a.num * b.den <= b.num * a.den

\* a < b on two rates
RateLess(a, b) == a.num * b.den < b.num * a.den

\* f"[{severity}] {cat}: {prev_rate * 100:.0f}% -> {curr_rate * 100:.0f}%" (-> is U+2192)
RegressionLine(severity, cat, prev_rate, curr_rate) ==
    "[" \o severity \o "] " \o cat \o ": " \o IntToStr(RoundPct(prev_rate)) \o "% -> "
    \o IntToStr(RoundPct(curr_rate)) \o "%"

\* the regression lines of the trend report; previous = <<>> is an empty dict
detect_regressions(current, previous) ==
    IF previous = <<>> THEN <<>>
    ELSE
    With(Get(previous, "categories", <<>>), LAMBDA prev_cats :
    With(Get(current, "categories", <<>>), LAMBDA curr_cats :
        MapSeq(Filter(Categories, LAMBDA cat :
                   /\ cat \in DOMAIN curr_cats
                   /\ RateLess(Get(curr_cats[cat], "rate", One),
                               Get(Get(prev_cats, cat, <<>>), "rate", One))),
               LAMBDA cat :
                   RegressionLine(Get(curr_cats[cat], "severity", "INFO"), cat,
                                  Get(Get(prev_cats, cat, <<>>), "rate", One),
                                  Get(curr_cats[cat], "rate", One)))))

-----------------------------------------------------------------------------
(* context_autoarchive.py --phase post *)

\* datetime.now(): one second after the last tick of the clock
Now == clock - Tick + 1

\* the summaries of all transcript files, each with its jsonl_file
AllSummaries(files) ==
    ConcatOver([i \in 1..Len(files) |-> i],
               LAMBDA i : MapSeq(find_compaction_summaries(files[i]),
                                 LAMBDA sm : [jsonl_file |-> i] @@ sm), 1)

\* all_summaries.sort(key=timestamp); latest = all_summaries[-1]  (the sort is stable)
Latest(all) ==
    all[Greatest({i \in 1..Len(all) :
                     \A j \in 1..Len(all) : all[j].timestamp <= all[i].timestamp})]

\* where phase_post stops: the first input it does not find, or "audited"
PostOutcome ==
    IF ~projectDir THEN "no_project"
    ELSE IF transcripts = <<>> THEN "no_transcript"
    ELSE IF AllSummaries(transcripts) = <<>> THEN "no_summary"
    ELSE IF ~archiveDir THEN "no_archive"
    ELSE IF SelectTarget(list_session_files(sessionFiles),
                         Latest(AllSummaries(transcripts)).session_id) = 0 THEN "no_session"
    ELSE "audited"

\* the value phase_post returns
PostSuccess(outcome) == outcome \in {"no_transcript", "no_summary", "audited"}

\* sys.exit(0)
ExitCodeZero(success) == 0

\* sys.exit(0 if success else 1)
ExitCode(success) == IF success THEN 0 ELSE 1

\* a step's record in last
Did(op, outcome, exit, printed, audit, wrote) ==
    [op |-> op, outcome |-> outcome, exit |-> exit, printed |-> printed,
     audit |-> audit, wrote |-> wrote]

\* the history ledger after phase_post's append
PostAppend(lines, structured, histOk) ==
    IF histOk THEN AppendLine(lines, RecordLine(structured)) ELSE lines

\* the bundled compaction report phase_post writes to compaction_reports/
PostReport(latest, structured, hist, now, ground_truth) ==
    [timestamp |-> now,
     session_id |-> IF latest.session_id # "" THEN latest.session_id
                    ELSE structured.session_id,
     run_number |-> structured.run,
     ground_truth |-> ground_truth,
     compaction_summary |-> [text |-> latest.text,
                             length |-> SummaryText[latest.text].length,
                             compaction_timestamp |-> latest.timestamp],
     audit |-> [rate |-> structured.summary.rate,
                severity_weighted_rate |-> structured.summary.severity_weighted_rate,
                regressions |-> PostRegressions(hist, structured)],
     trend |-> PostTrend(hist, structured)]

\* oks: what a write may do (TRUE: succeed, FALSE: raise)
phase_post(oks) ==
    /\ \E outcome \in {PostOutcome} :
       IF outcome # "audited"
       THEN /\ last' = Did("post", outcome, ExitCode(PostSuccess(outcome)),
                           IF PostSuccess(outcome) THEN "notice" ELSE "none",
                           <<>>, [history |-> FALSE, report |-> FALSE])
            /\ UNCHANGED <<history, reportsDir, pending, reports>>
       ELSE \E latest \in {Latest(AllSummaries(transcripts))} :
            \E target \in {SelectTarget(list_session_files(sessionFiles),
                                         latest.session_id)} :
            \E hist \in {load_audit_history(history)} :
            \E structured \in {[run |-> RunNumber(hist)]
                                @@ Structured(latest.text, target, blacklist, TRUE,
                                              latest.timestamp, Now)} :
            \E audit \in {[text |-> latest.text, file |-> target, deep |-> TRUE,
                            session |-> "", hint |-> latest.session_id,
                            results |-> Audited(latest.text, target, blacklist, TRUE)]} :
            \E histOk, dirOk, reportOk \in oks :
               /\ history' = PostAppend(history, structured, histOk)
               /\ IF ~reportsDir /\ ~dirOk
                  THEN /\ last' = Did("post", "crashed", 1, "none", audit,
                                      [history |-> histOk, report |-> FALSE])
                       /\ UNCHANGED <<reportsDir, pending, reports>>
                  ELSE /\ reportsDir' = TRUE
                       /\ reports' = IF reportOk
                                     THEN Append(reports,
                                                 PostReport(latest, structured, hist, Now,
                                                            pending))
                                     ELSE reports
                       /\ pending' = FALSE
                       /\ last' = Did("post", outcome, ExitCode(PostSuccess(outcome)),
                                      "result", audit,
                                      [history |-> histOk, report |-> reportOk])
    /\ UNCHANGED <<clock, projectDir, transcripts, archiveDir, sessionFiles, blacklist,
                   rerunLedger, cmp>>

-----------------------------------------------------------------------------
(* context_auditor.py: run_audit and main *)

\* args: [jsonl (a transcript file), which, session ("" when not given), deep]; --archive is
\* the project's context_archive.  The result: where run_audit exits, or what it returns
run_audit(args, files, archive, present, bl) ==
    With(find_compaction_summaries(files[args.jsonl]), LAMBDA summaries :
    With(IF args.which >= 0 THEN args.which ELSE Len(summaries) + args.which, LAMBDA idx :
        IF summaries = <<>> THEN [outcome |-> "no_summary"]
        ELSE IF idx < 0 \/ idx >= Len(summaries) THEN [outcome |-> "which_out_of_range"]
        ELSE IF ~archive THEN [outcome |-> "no_archive"]
        ELSE
    With(summaries[idx + 1], LAMBDA chosen :
    With(list_session_files(present), LAMBDA session_files :
    With(IF args.session # ""
         THEN With({i \in 1..Len(session_files) :
                       Contains(SessionFile[session_files[i]].name, args.session)},
                   LAMBDA named : IF named # {} THEN session_files[Least(named)] ELSE 0)
         ELSE SelectTarget(session_files, chosen.session_id), LAMBDA target :
        IF target = 0
        THEN [outcome |-> IF args.session # "" THEN "no_session_match" ELSE "no_session"]
        ELSE [outcome |-> "audited",
              text |-> chosen.text,
              session_id_hint |-> chosen.session_id,
              all_results |-> Audited(chosen.text, target, bl, args.deep),
              archive_meta |-> target,
              summary_info |-> [timestamp |-> chosen.timestamp,
                                length |-> SummaryText[chosen.text].length]])))))

\* python context_auditor.py <jsonl> --archive <dir> [--which n] [--session s] [--deep]
auditor_main(jsonl, which, session, deep) ==
       /\ jsonl \in 1..Len(transcripts)
       /\ \E result \in {run_audit([jsonl |-> jsonl, which |-> which, session |-> session,
                                     deep |-> deep],
                                    transcripts, archiveDir, sessionFiles, blacklist)} :
          last' = IF result.outcome = "audited"
                  THEN Did("audit", "audited", 0, "report",
                           [text |-> result.text, file |-> result.archive_meta,
                            deep |-> deep, session |-> session,
                            hint |-> result.session_id_hint,
                            results |-> result.all_results],
                           [history |-> FALSE, report |-> FALSE])
                  ELSE Did("audit", result.outcome, 1, "none", <<>>,
                           [history |-> FALSE, report |-> FALSE])
       /\ UNCHANGED <<clock, projectDir, transcripts, archiveDir, sessionFiles, blacklist,
                      history, reportsDir, pending, reports, rerunLedger, cmp>>

-----------------------------------------------------------------------------
(* context_rerunner.py *)

\* Skips historical baselines that lack stored compaction data
is_rerunnable(entry) ==
    /\ \E af \in {Get(entry, "archive_file", "")} :
           af # "(pre-structured-output)" /\ af # ""
    /\ \E sid \in {Get(entry, "session_id", "")} :
           ~(StartsWith(sid, "session-") /\ EndsWith(sid, "-start"))

\* entry.get('run', index + 1), index 0-based
get_run_number(entry, index) == Get(entry, "run", index + 1)

\* the (run_number, entry) pairs to rerun; run_numbers = {} when --run is not given
filter_entries(hist, run_numbers) ==
    MapSeq(Filter([i \in 1..Len(hist) |-> i],
                  LAMBDA i : /\ is_rerunnable(hist[i])
                             /\ (run_numbers = {}
                                 \/ get_run_number(hist[i], i - 1) \in run_numbers)),
           LAMBDA i : [run_num |-> get_run_number(hist[i], i - 1), entry |-> hist[i]])

\* the dict timestamp -> compaction info, as its items in insertion order: a key keeps the
\* place of its first insertion and the value of its last
build_compaction_index(files) ==
    With(Filter(ConcatOver([i \in 1..Len(files) |-> i],
                    LAMBDA i :
                        With(find_compaction_summaries(files[i]),
                             LAMBDA summaries :
                                 MapSeq([j \in 1..Len(summaries) |-> j],
                                        LAMBDA j :
                                            [timestamp |-> summaries[j].timestamp,
                                             jsonl_path |-> i, which |-> j - 1,
                                             session_id |-> summaries[j].session_id,
                                             text_len |->
                                                 SummaryText[summaries[j].text].length])),
                    1),
                LAMBDA e : e.timestamp # 0),
         LAMBDA stamped :
             MapSeq(Filter([i \in 1..Len(stamped) |-> i],
                           LAMBDA i : \A j \in 1..(i - 1) :
                                          stamped[j].timestamp # stamped[i].timestamp),
                    LAMBDA i : stamped[Greatest({j \in 1..Len(stamped) :
                                           stamped[j].timestamp = stamped[i].timestamp})]))

Abs(n) == IF n < 0 THEN 0 - n ELSE n

\* None
NoMatch == [matched |-> FALSE]

\* a match by exact timestamp only
MatchExactOnly(entry, compaction_index) ==
    With({i \in 1..Len(compaction_index) :
             compaction_index[i].timestamp = Get(entry, "timestamp", 0)},
         LAMBDA exact : IF exact # {} THEN [matched |-> TRUE] @@ compaction_index[Least(exact)]
                        ELSE NoMatch)

\* exact timestamp match, else the closest timestamp within 5 seconds (the first of the
\* closest ones)
match_entry_to_compaction(entry, compaction_index) ==
    With(Get(entry, "timestamp", 0), LAMBDA ts :
    With({i \in 1..Len(compaction_index) : compaction_index[i].timestamp = ts}, LAMBDA exact :
    With({i \in 1..Len(compaction_index) : Abs(ts - compaction_index[i].timestamp) <= 5},
         LAMBDA near :
        IF exact # {} THEN [matched |-> TRUE] @@ compaction_index[Least(exact)]
        ELSE IF ts = 0 \/ near = {} THEN NoMatch
        ELSE [matched |-> TRUE]
             @@ compaction_index[Least({i \in near : \A j \in near :
                                          Abs(ts - compaction_index[i].timestamp)
                                              <= Abs(ts - compaction_index[j].timestamp)})])))

\* Namespace(jsonl, which, archive, session=None, deep=True)
build_audit_args(jsonl_path, which_index) ==
    [jsonl |-> jsonl_path, which |-> which_index, session |-> "", deep |-> TRUE]

\* the structured results of the rerun, or None when run_audit exits
execute_rerun(compaction_match, files, archive, present, bl, now) ==
    With(run_audit(build_audit_args(compaction_match.jsonl_path, compaction_match.which),
                   files, archive, present, bl),
         LAMBDA result :
             IF result.outcome # "audited" THEN [ok |-> FALSE]
             ELSE [ok |-> TRUE,
                   structured |-> Structured(result.text, result.archive_meta, bl, TRUE,
                                             result.summary_info.timestamp, now)])

\* r - o of two rates, in lowest terms
RateDelta(r, o) ==
    With(r.num * o.den - o.num * r.den, LAMBDA n :
    With(r.den * o.den, LAMBDA d :
    With(GCD(Abs(n), d), LAMBDA g : [num |-> n \div g, den |-> d \div g])))

\* abs(o_rate - r_rate) < 0.005
WithinTolerance(o_rate, r_rate) ==
    Abs(o_rate.num * r_rate.den - r_rate.num * o_rate.den) * 1000
        < 5 * o_rate.den * r_rate.den

compare_summaries(original, rerun) ==
    With(Get(original, "summary", <<>>), LAMBDA o :
    With(Get(rerun, "summary", <<>>), LAMBDA r :
    With(Get(o, "rate", Ratio(0, 1)), LAMBDA o_rate :
    With(Get(r, "rate", Ratio(0, 1)), LAMBDA r_rate :
    With(Get(o, "total", 0), LAMBDA o_total :
    With(Get(r, "total", 0), LAMBDA r_total :
    With(Get(o, "found", 0), LAMBDA o_found :
    With(Get(r, "found", 0), LAMBDA r_found :
        [rate_match |->
             IF o_total > 0 /\ r_total > 0
             THEN /\ o_total = r_total /\ o_found = r_found
                  /\ Get(o, "missing", 0) = Get(r, "missing", 0)
                  /\ Get(o, "mismatched", 0) = Get(r, "mismatched", 0)
             ELSE WithinTolerance(o_rate, r_rate),
         rate_original |-> o_rate, rate_rerun |-> r_rate,
         rate_delta |-> RateDelta(r_rate, o_rate),
         total_original |-> o_total, total_rerun |-> r_total,
         found_original |-> o_found, found_rerun |-> r_found]))))))))

\* sorted() of the category names (computed once)
SortedCategories == SortedStrs(Range(Categories))

compare_categories(original, rerun) ==
    With(Get(original, "categories", <<>>), LAMBDA o_cats :
    With(Get(rerun, "categories", <<>>), LAMBDA r_cats :
        MapSeq(Filter(SortedCategories,
                      LAMBDA cat : cat \in DOMAIN o_cats \cup DOMAIN r_cats),
               LAMBDA cat :
                   With(Get(Get(o_cats, cat, <<>>), "rate", Ratio(0, 1)), LAMBDA o_rate :
                   With(Get(Get(r_cats, cat, <<>>), "rate", Ratio(0, 1)), LAMBDA r_rate :
                   With(RateDelta(r_rate, o_rate), LAMBDA delta :
                       [category |-> cat, original_rate |-> o_rate, rerun_rate |-> r_rate,
                        delta |-> delta, changed |-> delta.num # 0]))))))

RECURSIVE SortKeys(_)
SortKeys(S) ==
    IF S = {} THEN <<>>
    ELSE With(CHOOSE x \in S : \A y \in S \ {x} :
                             StrLess(x[1], y[1]) \/ (x[1] = y[1] /\ StrLess(x[2], y[2])),
              LAMBDA m : <<m>> \o SortKeys(S \ {m}))

\* the (category, claim) keys of every summary text, sorted (computed once)
AllKeys ==
    SortKeys(UNION {{<<c, results[i].claim>> : i \in 1..Len(results)} :
                    <<c, results>> \in
                        UNION {{<<c, all_results[c]>> : c \in Range(Categories)} :
                               all_results \in
                                   {AuditTable[t][1][b][1] :
                                       t \in 1..Len(SummaryText),
                                       b \in 1..Len(Blacklists)}}})

\* {(c['category'], c['claim']): c for c in claims}[key]: the last claim with that key
ClaimOf(claims, key) ==
    claims[Greatest({i \in 1..Len(claims) :
                        <<claims[i].category, claims[i].claim>> = key})]

ClaimKeys(claims) == {<<claims[i].category, claims[i].claim>> : i \in 1..Len(claims)}

\* a comparison that counts every pair held by both runs as unchanged
compare_claims_both_unchanged(original_claims, rerun_claims) ==
    [unchanged |-> Cardinality(ClaimKeys(original_claims) \cap ClaimKeys(rerun_claims)),
     upgraded |-> MapSeq(Filter(AllKeys, LAMBDA k :
                             /\ k \in ClaimKeys(original_claims) \cap ClaimKeys(rerun_claims)
                             /\ ClaimOf(original_claims, k).status
                                    # ClaimOf(rerun_claims, k).status),
                         LAMBDA k : [claim |-> k[2], category |-> k[1],
                                     original |-> ClaimOf(original_claims, k).status,
                                     rerun |-> ClaimOf(rerun_claims, k).status]),
     downgraded |-> <<>>,
     new_claims |-> MapSeq(Filter(AllKeys, LAMBDA k :
                               k \in ClaimKeys(rerun_claims) \ ClaimKeys(original_claims)),
                           LAMBDA k : [claim |-> k[2], category |-> k[1],
                                       status |-> ClaimOf(rerun_claims, k).status]),
     removed_claims |-> MapSeq(Filter(AllKeys, LAMBDA k :
                                   k \in ClaimKeys(original_claims) \ ClaimKeys(rerun_claims)),
                               LAMBDA k : [claim |-> k[2], category |-> k[1],
                                           status |-> ClaimOf(original_claims, k).status])]

\* Compare per-claim status between original and rerun, matched by (category, claim)
compare_claims(original_claims, rerun_claims) ==
    IF original_claims = <<>> /\ rerun_claims = <<>>
    THEN [unchanged |-> 0, upgraded |-> <<>>, downgraded |-> <<>>,
          new_claims |-> <<>>, removed_claims |-> <<>>, note |-> "both empty"]
    ELSE IF original_claims = <<>>
    THEN [unchanged |-> 0, upgraded |-> <<>>, downgraded |-> <<>>,
          new_claims |-> MapSeq(rerun_claims,
                                LAMBDA c : [claim |-> c.claim, category |-> c.category,
                                            status |-> c.status]),
          removed_claims |-> <<>>, note |-> "original had no per-claim data"]
    ELSE
    With(ClaimKeys(original_claims), LAMBDA okeys :
    With(ClaimKeys(rerun_claims), LAMBDA rkeys :
    With(Filter(AllKeys, LAMBDA k : k \in okeys \cup rkeys), LAMBDA all_keys :
    \* the keys both sides hold, each with its two statuses
    With(MapSeq(Filter(all_keys, LAMBDA k : k \in okeys /\ k \in rkeys),
                LAMBDA k : [claim |-> k[2], category |-> k[1],
                            original |-> ClaimOf(original_claims, k).status,
                            rerun |-> ClaimOf(rerun_claims, k).status]), LAMBDA both :
        [unchanged |-> Len(Filter(both, LAMBDA c : c.original = c.rerun)),
         upgraded |-> Filter(both, LAMBDA c :
                          /\ c.original # c.rerun
                          /\ ~(c.original = "FOUND" /\ c.rerun \in {"MISSING", "MISMATCH"})),
         downgraded |-> Filter(both, LAMBDA c :
                            /\ c.original # c.rerun
                            /\ c.original = "FOUND" /\ c.rerun \in {"MISSING", "MISMATCH"}),
         new_claims |-> MapSeq(Filter(all_keys, LAMBDA k : k \notin okeys),
                               LAMBDA k : [claim |-> k[2], category |-> k[1],
                                           status |-> ClaimOf(rerun_claims, k).status]),
         removed_claims |-> MapSeq(Filter(all_keys, LAMBDA k : k \notin rkeys),
                                   LAMBDA k : [claim |-> k[2], category |-> k[1],
                                               status |-> ClaimOf(original_claims, k).status])
        ]))))

\* the record the batch loop appends to rerun_results for one (run_num, entry)
RerunRecord(run_num, entry, compaction_index, now) ==
    With(match_entry_to_compaction(entry, compaction_index), LAMBDA match :
        IF ~match.matched
        THEN [rerun_of |-> run_num, batch |-> now, status |-> "SKIPPED",
              reason |-> "compaction not found"]
        ELSE
    With(execute_rerun(match, transcripts, archiveDir, sessionFiles, blacklist, now),
         LAMBDA rerun :
        IF ~rerun.ok
        THEN [rerun_of |-> run_num, batch |-> now, status |-> "FAILED",
              reason |-> "auditor error"]
        ELSE
    With(compare_summaries(entry, rerun.structured), LAMBDA comparison :
        [rerun_of |-> run_num, batch |-> now, rerun_timestamp |-> now,
         original_summary |-> Get(entry, "summary", <<>>),
         rerun_summary |-> rerun.structured.summary,
         comparison |-> comparison,
         category_deltas |-> compare_categories(entry, rerun.structured),
         claim_diffs |-> compare_claims(Get(entry, "claims", <<>>),
                                        rerun.structured.claims),
         reproduced |-> comparison.rate_match])))

\* a batch loop that breaks after the first entry it cannot rerun
RerunBatchBreak(rerunnable, compaction_index, now) ==
    With(MapSeq(rerunnable,
                LAMBDA e : RerunRecord(e.run_num, e.entry, compaction_index, now)),
         LAMBDA all :
             SubSeq(all, 1, LeastOr({i \in 1..Len(all) : "status" \in DOMAIN all[i]},
                                    Len(all))))

\* rerun_results of the batch loop: one record per entry of rerunnable, in its order
RerunBatch(rerunnable, compaction_index, now) ==
    MapSeq(rerunnable, LAMBDA e : RerunRecord(e.run_num, e.entry, compaction_index, now))

\* save_rerun_history: open(path, 'a') and one line per entry
save_rerun_history(ledger, rerun_results) == ledger \o rerun_results

\* where the rerunner stops before the batch loop, or "batch"
RerunOutcome(runs, dry_run) ==
    IF ~archiveDir THEN "no_archive"
    ELSE IF load_audit_history(history) = <<>> THEN "no_history"
    ELSE IF filter_entries(load_audit_history(history), runs) = <<>> THEN "nothing_rerunnable"
    ELSE IF ~projectDir THEN "no_project"
    ELSE IF dry_run THEN "dry_run"
    ELSE "batch"

\* python context_rerunner.py [--run n ...]; oks: what opening the rerun ledger may do
rerunner_main(runs, oks) ==
       /\ \E outcome \in {RerunOutcome(runs, FALSE)} :
          IF outcome # "batch"
          THEN /\ last' = [runs |-> runs, batch |-> <<>>]
                          @@ Did("rerun", outcome,
                                 IF outcome \in {"nothing_rerunnable", "dry_run"}
                                 THEN 0 ELSE 1,
                                 "none", <<>>, [history |-> FALSE, report |-> FALSE])
               /\ UNCHANGED rerunLedger
          ELSE \E rerun_results \in
                      {RerunBatch(filter_entries(load_audit_history(history), runs),
                                  build_compaction_index(transcripts), Now)} :
               \E saveOk \in oks :
               IF saveOk
               THEN /\ rerunLedger' = save_rerun_history(rerunLedger, rerun_results)
                    /\ last' = [runs |-> runs, batch |-> rerun_results]
                               @@ Did("rerun", "batch", 0, "report", <<>>,
                                      [history |-> FALSE, report |-> TRUE])
               ELSE /\ last' = [runs |-> runs, batch |-> rerun_results]
                               @@ Did("rerun", "crashed", 1, "none", <<>>,
                                      [history |-> FALSE, report |-> FALSE])
                    /\ UNCHANGED rerunLedger
       /\ UNCHANGED <<clock, projectDir, transcripts, archiveDir, sessionFiles, blacklist,
                      history, reportsDir, pending, reports, cmp>>

\* python context_rerunner.py --dry-run [--run n ...]
rerunner_dry_run(runs) ==
       /\ \E outcome \in {RerunOutcome(runs, TRUE)} :
              last' = [runs |-> runs, batch |-> <<>>]
                      @@ Did("rerun", outcome,
                             IF outcome \in {"nothing_rerunnable", "dry_run"} THEN 0 ELSE 1,
                             "none", <<>>, [history |-> FALSE, report |-> FALSE])
       /\ UNCHANGED <<clock, projectDir, transcripts, archiveDir, sessionFiles, blacklist,
                      history, reportsDir, pending, reports, rerunLedger, cmp>>

-----------------------------------------------------------------------------
(* The environment: Claude Code's sessions, the pre-compaction hook, the operator *)

Idle == [op |-> "env", outcome |-> "", exit |-> 0, printed |-> "none", audit |-> <<>>,
         wrote |-> [history |-> FALSE, report |-> FALSE]]

LineCount(files) == SumOver(files, LAMBDA lines : Len(lines), 1)

\* Claude Code creates the project's directory
OpenProject ==
    /\ ~projectDir
    /\ projectDir' = TRUE
    /\ last' = Idle
    /\ UNCHANGED <<clock, transcripts, archiveDir, sessionFiles, blacklist, history,
                   reportsDir, pending, reports, rerunLedger, cmp>>

\* the transcripts after a line is written to file f (a new file when f is one past the end)
WriteLine(files, f, line) ==
    IF f > Len(files) THEN Append(files, <<line>>)
    ELSE [files EXCEPT ![f] = Append(@, line)]

\* a session is compacted: its transcript gets summary k
Compact(f, k) ==
    /\ projectDir
    /\ f \in 1..(Len(transcripts) + 1)
    /\ transcripts' = WriteLine(transcripts, f, SummaryLine(k, clock))
    /\ clock' = clock + Tick
    /\ last' = Idle
    /\ UNCHANGED <<projectDir, archiveDir, sessionFiles, blacklist, history, reportsDir,
                   pending, reports, rerunLedger, cmp>>

\* a write to a transcript is cut short
TearTranscript(f) ==
    /\ projectDir
    /\ f \in 1..(Len(transcripts) + 1)
    /\ transcripts' = WriteLine(transcripts, f, TornLine)
    /\ last' = Idle
    /\ UNCHANGED <<clock, projectDir, archiveDir, sessionFiles, blacklist, history,
                   reportsDir, pending, reports, rerunLedger, cmp>>

\* context_autoarchive.py --phase pre: the preserver writes session file f, then the
\* ground truth of that file is saved for the post phase (gtOk: the save succeeds)
phase_pre(f, gtOk) ==
    /\ projectDir
    /\ LineCount(transcripts) > 0
    /\ archiveDir' = TRUE
    /\ sessionFiles' = sessionFiles \cup {f}
    /\ reportsDir' = (reportsDir \/ gtOk)
    /\ pending' = (pending \/ gtOk)
    /\ last' = Idle
    /\ UNCHANGED <<clock, projectDir, transcripts, blacklist, history, reports,
                   rerunLedger, cmp>>

\* the operator removes a session file from the archive
RemoveSession(f) ==
    /\ f \in sessionFiles
    /\ sessionFiles' = sessionFiles \ {f}
    /\ last' = Idle
    /\ UNCHANGED <<clock, projectDir, transcripts, archiveDir, blacklist, history,
                   reportsDir, pending, reports, rerunLedger, cmp>>

\* a line of the history ledger is not valid JSON (a write cut short)
TearHistory ==
    /\ archiveDir
    /\ history' = AppendLine(history, TornLine)
    /\ last' = Idle
    /\ UNCHANGED <<clock, projectDir, transcripts, archiveDir, sessionFiles, blacklist,
                   reportsDir, pending, reports, rerunLedger, cmp>>

Init ==
    /\ clock = Tick
    /\ projectDir = FALSE
    /\ transcripts = <<>>
    /\ archiveDir = FALSE
    /\ sessionFiles = {}
    /\ blacklist = 1
    /\ history = <<>>
    /\ reportsDir = FALSE
    /\ pending = FALSE
    /\ reports = <<>>
    /\ rerunLedger = <<>>
    /\ last = Idle
    /\ cmp = <<>>

\* The hook, the auditor and the rerunner over one transcript and one session file
Next ==
    \/ OpenProject
    \/ /\ LineCount(transcripts) < MaxLines
       /\ Compact(1, 1)
    \/ /\ LineCount(transcripts) < MaxLines
       /\ TearTranscript(1)
    \/ \E gtOk \in BOOLEAN : phase_pre(1, gtOk)
    \/ RemoveSession(1)
    \/ /\ Len(history) - Len(load_audit_history(history)) < MaxTorn
       /\ TearHistory
    \/ /\ Len(load_audit_history(history)) < MaxRuns
       /\ Len(reports) < MaxRuns
       /\ phase_post(BOOLEAN)
    \/ \E which \in {-1, 1}, deep \in BOOLEAN : auditor_main(1, which, "", deep)
    \/ /\ Len(rerunLedger) < MaxReruns
       /\ rerunner_main({}, BOOLEAN)
    \/ rerunner_dry_run({})

Spec == Init /\ [][Next]_vars

\* Audits of every summary against every session file
NextAudit ==
    \/ OpenProject
    \/ /\ LineCount(transcripts) < AuditLines
       /\ \E f \in 1..2, k \in 1..Len(Compactions) : Compact(f, k)
    \/ \E f \in 1..Len(SessionFile) : phase_pre(f, TRUE)
    \/ /\ Len(history) < AuditRuns
       /\ phase_post({TRUE})
    \/ \E jsonl \in 1..2, which \in {-1, 0}, session \in {"", "bbbb2222"},
          deep \in BOOLEAN : auditor_main(jsonl, which, session, deep)

SpecAudit == Init /\ [][NextAudit]_vars

\* Rerun batches over a history of live audits
NextRerun ==
    \/ OpenProject
    \/ /\ LineCount(transcripts) < RerunLines
       /\ \E f \in 1..2, k \in 1..Len(Compactions) : Compact(f, k)
    \/ \E f \in 1..2 : phase_pre(f, TRUE)
    \/ \E f \in 1..2 : RemoveSession(f)
    \/ /\ Len(history) < RerunRuns
       /\ phase_post({TRUE})
    \/ /\ Len(rerunLedger) < MaxReruns
       /\ \E runs \in {{}, {2}} : rerunner_main(runs, BOOLEAN)
    \/ \E runs \in {{}, {2}} : rerunner_dry_run(runs)

SpecRerun == Init /\ [][NextRerun]_vars

\* the 'summary' dicts build_structured_results stores: every split of at most MaxCount
\* claims into found, missing and mismatched
CountedSummaries ==
    {[total |-> f + m + x, found |-> f, missing |-> m, mismatched |-> x,
      rate |-> IF f + m + x > 0 THEN Ratio(f, f + m + x) ELSE One] :
        <<f, m, x>> \in {c \in (0..MaxCount) \X (0..MaxCount) \X (0..MaxCount) :
                            c[1] + c[2] + c[3] <= MaxCount}}

\* the 'summary' dicts of historical entries that hold a (truncated) rate and no counts
RateOnlySummaries ==
    {[rate |-> r] : r \in {Ratio(0, 1), Ratio(33, 100), Ratio(1, 2), One}}

\* the 'claims' lists of two entries over the same two claims: each claim absent or stored
\* with one of the statuses build_structured_results writes
ClaimLists ==
    {(IF a = "" THEN <<>>
      ELSE <<[category |-> "File Paths", claim |-> "/home/user/project/tool.py",
              status |-> a]>>)
     \o (IF b = "" THEN <<>>
         ELSE <<[category |-> "Turn Counts", claim |-> "68 turns", status |-> b]>>) :
        a, b \in {"", "FOUND", "MISSING", "MISMATCH"}}
    \cup {<<[category |-> "Turn Counts", claim |-> "68 turns", status |-> a],
            [category |-> "Turn Counts", claim |-> "68 turns", status |-> b]>> :
              a, b \in {"FOUND", "MISMATCH"}}

\* the runs build_structured_results stores, by the counts of two of their categories
RegressionRuns ==
    {[categories |->
         [c \in {"Tools Used", "Topics"} |->
             With(IF c = "Topics" THEN b ELSE a, LAMBDA n :
                 [total |-> n[2], found |-> n[1], missing |-> n[2] - n[1], mismatched |-> 0,
                  rate |-> IF n[2] > 0 THEN Ratio(n[1], n[2]) ELSE One,
                  severity |-> CATEGORY_SEVERITY(c)])]] :
        a, b \in {<<3, 5>>, <<9, 10>>, <<19, 20>>, <<0, 0>>, <<1, 3>>, <<5, 18>>,
                  <<7, 8>>, <<33, 40>>}}

\* detect_regressions(structured, history[-1]) of format_report_with_trends
DetectRegressions ==
    /\ cmp.fn = "detect_regressions"
    /\ ~cmp.done
    /\ cmp' = [cmp EXCEPT !.done = TRUE,
                          !.result = detect_regressions(cmp.current, cmp.previous)]
    /\ UNCHANGED <<clock, projectDir, transcripts, archiveDir, sessionFiles, blacklist,
                   history, reportsDir, pending, reports, rerunLedger, last>>

\* the compaction indexes over at most two of three stamped summaries, in any file order
CompactionIndexes ==
    {idx \in UNION {[1..n -> {[timestamp |-> t, jsonl_path |-> 1, which |-> 0,
                                session_id |-> "", text_len |-> 57] : t \in {10, 14, 20}}] :
                       n \in 0..2} :
        \A i, j \in DOMAIN idx : idx[i].timestamp = idx[j].timestamp => i = j}

\* match_entry_to_compaction(entry, compaction_index) of the batch loop
MatchEntry ==
    /\ cmp.fn = "match_entry_to_compaction"
    /\ ~cmp.done
    /\ cmp' = [cmp EXCEPT !.done = TRUE,
                          !.result = match_entry_to_compaction(cmp.entry, cmp.index)]
    /\ UNCHANGED <<clock, projectDir, transcripts, archiveDir, sessionFiles, blacklist,
                   history, reportsDir, pending, reports, rerunLedger, last>>

\* the files handed to a line parser: at most MaxFileLines lines, each a well-formed
\* line, a line that is not valid JSON or a line that does not decode
FileLines(wellFormed) ==
    UNION {[1..n -> wellFormed \cup {TornLine, UndecodableLine}] : n \in 0..MaxFileLines}

\* load_audit_history(history_path) of a ledger file
LoadAuditHistory ==
    /\ cmp.fn = "load_audit_history"
    /\ ~cmp.done
    /\ cmp' = [cmp EXCEPT !.done = TRUE,
                          !.result = IF Utf8Decodes(cmp.lines)
                                     THEN [raised |-> "",
                                           value |-> load_audit_history(cmp.lines)]
                                     ELSE [raised |-> "UnicodeDecodeError",
                                           value |-> <<>>]]
    /\ UNCHANGED <<clock, projectDir, transcripts, archiveDir, sessionFiles, blacklist,
                   history, reportsDir, pending, reports, rerunLedger, last>>

\* find_compaction_summaries(jsonl_path) of a transcript file
FindCompactionSummaries ==
    /\ cmp.fn = "find_compaction_summaries"
    /\ ~cmp.done
    /\ cmp' = [cmp EXCEPT !.done = TRUE,
                          !.result = IF Utf8Decodes(cmp.lines)
                                     THEN [raised |-> "",
                                           value |-> find_compaction_summaries(cmp.lines)]
                                     ELSE [raised |-> "UnicodeDecodeError",
                                           value |-> <<>>]]
    /\ UNCHANGED <<clock, projectDir, transcripts, archiveDir, sessionFiles, blacklist,
                   history, reportsDir, pending, reports, rerunLedger, last>>

\* the claim lists of the six extract_* functions, by category; semantic_map is the
\* blacklist semantic_map.json holds during the call
ExtractAll(text, semantic_map) ==
    ("File Paths" :> extract_file_claims(text))
    @@ ("Tools Used" :> extract_tool_claims(text))
    @@ ("User Quotes" :> extract_user_quotes(text))
    @@ ("Topics" :> extract_topic_claims(text, semantic_map))
    @@ ("Turn Counts" :> extract_turn_count_claims(text))
    @@ ("Functions/Classes" :> extract_function_claims(text))

\* the extract_* functions applied to one summary text, a first and then a second time
ExtractClaims ==
    /\ cmp.fn = "extract_claims"
    /\ ~cmp.done
    /\ cmp' = IF cmp.first = <<>>
              THEN [cmp EXCEPT !.first = ExtractAll(SummaryText[cmp.text],
                                                    Blacklists[blacklist])]
              ELSE [cmp EXCEPT !.done = TRUE,
                               !.result = ExtractAll(SummaryText[cmp.text],
                                                     Blacklists[blacklist])]
    /\ UNCHANGED <<clock, projectDir, transcripts, archiveDir, sessionFiles, blacklist,
                   history, reportsDir, pending, reports, rerunLedger, last>>

\* the dashboard's blacklist tab saves semantic_map.json with another blacklist
save_semantic_map(b) ==
    /\ b # blacklist
    /\ blacklist' = b
    /\ UNCHANGED <<clock, projectDir, transcripts, archiveDir, sessionFiles, history,
                   reportsDir, pending, reports, rerunLedger, last, cmp>>

\* the quotes handed to verify_quotes: one found as it stands, one by its first 40
\* characters, one by its words, one not at all, one whose first 40 characters end with
\* a blank, one whose first 40 characters are mostly blanks
QuoteClaims ==
    {"use a content-addressed cache",
     "We should use a content-addressed cache. zzzzzz yyyyyy xxxxxx wwwwww vvvvvv",
     "ledger should always append",
     "rewrite everything in rust",
     "We should use a content-addressed cache zzzzzz yyyyyy xxxxxx wwwwww vvvvvv",
     "ok fine                                  zzzzzz yyyyyy"}

\* the turns of the archive the quotes are looked up in
QuoteTurns ==
    {<< [role |-> "user",
         content |-> "We should use a content-addressed cache. Keep the ledger append only"],
        [role |-> "claude", content |-> "rewrite everything in rust"] >>,
     << [role |-> "user", content |-> "ok fine                                  then go on"],
        [role |-> "claude", content |-> "use a content-addressed cache"],
        [role |-> "user", content |-> "Use a content-addressed cache"] >>}

\* verify_quotes(claimed_quotes, archive_turns) of run_audit
VerifyQuotes ==
    /\ cmp.fn = "verify_quotes"
    /\ ~cmp.done
    /\ cmp' = [cmp EXCEPT !.done = TRUE, !.result = verify_quotes(cmp.quotes, cmp.turns)]
    /\ UNCHANGED <<clock, projectDir, transcripts, archiveDir, sessionFiles, blacklist,
                   history, reportsDir, pending, reports, rerunLedger, last>>

\* the regression loop of phase_post over the last ledger record and the current run
PhasePostRegressions ==
    /\ cmp.fn = "phase_post_regressions"
    /\ ~cmp.done
    /\ cmp' = [cmp EXCEPT !.done = TRUE,
                          !.result = PostRegressions(<<cmp.previous>>, cmp.current)]
    /\ UNCHANGED <<clock, projectDir, transcripts, archiveDir, sessionFiles, blacklist,
                   history, reportsDir, pending, reports, rerunLedger, last>>

\* compare_summaries(original, rerun) of a stored entry and a rerun
Compare ==
    /\ cmp.fn = "compare_summaries"
    /\ ~cmp.done
    /\ cmp' = [cmp EXCEPT !.done = TRUE,
                          !.result = compare_summaries(cmp.original, cmp.rerun)]
    /\ UNCHANGED <<clock, projectDir, transcripts, archiveDir, sessionFiles, blacklist,
                   history, reportsDir, pending, reports, rerunLedger, last>>

\* compare_claims(original.get('claims', []), rerun.get('claims', []))
CompareClaims ==
    /\ cmp.fn = "compare_claims"
    /\ ~cmp.done
    /\ cmp' = [cmp EXCEPT !.done = TRUE,
                          !.result = compare_claims(Get(cmp.original, "claims", <<>>),
                                                    Get(cmp.rerun, "claims", <<>>))]
    /\ UNCHANGED <<clock, projectDir, transcripts, archiveDir, sessionFiles, blacklist,
                   history, reportsDir, pending, reports, rerunLedger, last>>

InitCmp ==
    /\ clock = Tick
    /\ projectDir = FALSE
    /\ transcripts = <<>>
    /\ archiveDir = FALSE
    /\ sessionFiles = {}
    /\ blacklist = 1
    /\ history = <<>>
    /\ reportsDir = FALSE
    /\ pending = FALSE
    /\ reports = <<>>
    /\ rerunLedger = <<>>
    /\ last = Idle
    /\ cmp \in {[fn |-> "compare_summaries",
                  original |-> [summary |-> o], rerun |-> [summary |-> r],
                  done |-> FALSE, result |-> <<>>] :
                    o \in CountedSummaries \cup RateOnlySummaries, r \in CountedSummaries}
               \cup {[fn |-> "compare_claims",
                      original |-> [claims |-> o], rerun |-> [claims |-> r],
                      done |-> FALSE, result |-> <<>>] : o, r \in ClaimLists}
               \cup {[fn |-> "detect_regressions", current |-> c, previous |-> p,
                      done |-> FALSE, result |-> <<>>] :
                        c \in RegressionRuns,
                        p \in RegressionRuns \cup {[summary |-> [rate |-> One]]}}
               \cup {[fn |-> "match_entry_to_compaction",
                      entry |-> IF ts = 0 THEN [run |-> 1] ELSE [run |-> 1, timestamp |-> ts],
                      index |-> idx, done |-> FALSE, result |-> <<>>] :
                        ts \in {0, 4, 5, 10, 12, 15, 16, 26}, idx \in CompactionIndexes}
               \cup {[fn |-> "load_audit_history", lines |-> l,
                      done |-> FALSE, result |-> <<>>] :
                        l \in FileLines({RecordLine([run |-> 1]), RecordLine([run |-> 2])})}
               \cup {[fn |-> "find_compaction_summaries", lines |-> l,
                      done |-> FALSE, result |-> <<>>] :
                        l \in FileLines({SummaryLine(1, Tick), SummaryLine(3, Tick)})}
               \cup {[fn |-> "verify_quotes", quotes |-> <<q1, q2>>, turns |-> t,
                      done |-> FALSE, result |-> <<>>] :
                        q1, q2 \in QuoteClaims, t \in QuoteTurns}
               \cup {[fn |-> "phase_post_regressions", current |-> c, previous |-> p,
                      done |-> FALSE, result |-> <<>>] : c, p \in RegressionRuns}
               \cup {[fn |-> "extract_claims", text |-> t, first |-> <<>>,
                      done |-> FALSE, result |-> <<>>] : t \in 1..Len(SummaryText)}

\* Direct calls of the rerunner's comparison functions
NextCmp ==
    \/ Compare
    \/ CompareClaims
    \/ DetectRegressions
    \/ MatchEntry
    \/ LoadAuditHistory
    \/ FindCompactionSummaries
    \/ ExtractClaims
    \/ VerifyQuotes
    \/ PhasePostRegressions
    \/ \E b \in 1..Len(Blacklists) : save_semantic_map(b)

SpecCmp == InitCmp /\ [][NextCmp]_vars

-----------------------------------------------------------------------------
(* Properties *)

\* the last step was an audit that ran to its end
Audit == last.op \in {"post", "audit"} /\ last.audit # <<>>

\* all_results of the last audit before its deep pass: what the verifiers returned
HeaderResults == Audited(last.audit.text, last.audit.file, blacklist, FALSE)

\* C1: after the deep pass of run_audit (deep on) and of phase_post, every category holds the
\* same claims in the same order, a claim that was FOUND or MISMATCH keeps its status, and
\* a claim that was MISSING is MISSING or FOUND (deep).
C1_DeepNeverDowngrades ==
    (Audit /\ last.audit.deep) =>
        \A c \in Range(Categories) :
            /\ Len(last.audit.results[c]) = Len(HeaderResults[c])
            /\ \A i \in 1..Len(HeaderResults[c]) :
                   LET before == HeaderResults[c][i]
                       after == last.audit.results[c][i]
                   IN /\ after.claim = before.claim
                      /\ before.status # "MISSING" => after.status = before.status
                      /\ before.status = "MISSING"
                             => after.status \in {"MISSING", "FOUND (deep)"}

\* C1 witness: a deep audit by phase_post in which one claim went from MISSING to
\* FOUND (deep) while a FOUND claim and a MISMATCH claim stayed as they were
C1_Witness ==
    /\ Audit /\ last.op = "post" /\ last.audit.deep
    /\ \E c \in Range(Categories) : \E i \in 1..Len(HeaderResults[c]) :
           /\ HeaderResults[c][i].status = "MISSING"
           /\ last.audit.results[c][i].status = "FOUND (deep)"
    /\ \E c \in Range(Categories) : \E i \in 1..Len(HeaderResults[c]) :
           HeaderResults[c][i].status = "FOUND"
    /\ \E c \in Range(Categories) : \E i \in 1..Len(HeaderResults[c]) :
           /\ StartsWith(HeaderResults[c][i].status, "MISMATCH")
           /\ last.audit.results[c][i].status = HeaderResults[c][i].status

\* the records of the history ledger
Records == load_audit_history(history)

\* C6: in every run of the history ledger no two claims have the same id
C6_ClaimIdsUnique ==
    \A n \in 1..Len(Records) :
        \A i, j \in 1..Len(Records[n].claims) :
            i # j => Records[n].claims[i].id # Records[n].claims[j].id

\* the number of parseable records among the first n lines of the history ledger
RecordsBefore(n) == Cardinality({m \in 1..n : history[m].kind = "record"})

\* C2: every record of the history ledger has run = (the number of parseable records before
\* it) + 1, unparseable lines not counted, and the run numbers increase strictly in ledger
\* order.
C2_RunNumbers ==
    /\ \A n \in 1..Len(history) :
           history[n].kind = "record" => history[n].rec.run = RecordsBefore(n - 1) + 1
    /\ \A i, j \in 1..Len(Records) : i < j => Records[i].run < Records[j].run

\* C2 witness: phase_post has appended a second run to a ledger that holds an unparseable
\* line
C2_Witness ==
    /\ last.op = "post" /\ last.wrote.history
    /\ Len(Records) >= 2
    /\ \E n \in 1..Len(history) : history[n].kind = "torn"

\* C3: every step of the engine (phase_post, the plain audit, a rerun batch) leaves the
\* lines the history ledger had as a prefix of the lines it has afterwards.
C3_AppendOnly == [][IsPrefixOf(history, history')]_vars

\* C3 witness: phase_post has appended to a ledger that already held a record, and a rerun
\* batch has been saved
C3_Witness ==
    /\ last.op = "post" /\ last.wrote.history
    /\ Len(history) >= 2
    /\ rerunLedger # <<>>

\* phase_post cannot obtain its inputs: no transcript or no summary in them, no archive
\* directory, or no session file in it
InputsMissing ==
    \/ ~projectDir
    \/ AllSummaries(transcripts) = <<>>
    \/ ~archiveDir
    \/ sessionFiles = {}

\* C7: a phase_post that cannot obtain its inputs, and a plain audit that does not reach its
\* report, compute no results and leave the history ledger exactly as it was.
C7_AbortLeavesLedger ==
    [][(\/ last'.op = "post" /\ InputsMissing
        \/ last'.op = "audit" /\ last'.outcome # "audited")
       => (history' = history /\ last'.audit = <<>>)]_vars

\* C7 witness: phase_post found no session file in the archive while the ledger held a run
C7_Witness ==
    /\ last.op = "post" /\ last.outcome = "no_session"
    /\ InputsMissing
    /\ Len(Records) >= 1

C9_WriteFailureOnlyWarns ==
    /\ (last.op = "post" /\ last.audit # <<>>
           /\ (~last.wrote.history \/ ~last.wrote.report))
          => last.printed = "result"
    /\ (last.op = "rerun" /\ last.batch # <<>> /\ ~last.wrote.report)
          => last.printed = "report"

\* the rerunner's batch loop ran in the last step
Reran == last.op = "rerun" /\ last.outcome \in {"batch", "crashed"}

\* the (run_num, entry) pairs the last rerun attempted, and the index it matched them in
Attempted == filter_entries(Records, last.runs)
Index == build_compaction_index(transcripts)

\* the entry's compaction summary is still in a transcript and the session file it
\* recorded is still in the archive
Resolvable(entry) ==
    /\ \E i \in 1..Len(Index) : Index[i].timestamp = Get(entry, "timestamp", 0)
    /\ archiveDir
    /\ \E f \in sessionFiles : SessionFile[f].name = Get(entry, "archive_file", "")

\* C4: replaying a stored history entry whose compaction summary and archive are still
\* resolvable yields the stored counts, so that the rerun record says reproduced
C4_ReplayReproduces ==
    Reran =>
        \A i \in 1..Len(last.batch) :
            Resolvable(Attempted[i].entry) =>
                /\ "reproduced" \in DOMAIN last.batch[i]
                /\ last.batch[i].reproduced
                /\ \A k \in {"total", "found", "missing", "mismatched"} :
                       last.batch[i].rerun_summary[k] = last.batch[i].original_summary[k]

\* the summary carries the four integer counts
HasCounts(summary) == {"total", "found", "missing", "mismatched"} \subseteq DOMAIN summary

\* C5: compare_summaries decides the match by exact comparison of total, found, missing
\* and mismatched whenever both summaries carry the counts, and by the rates within 0.005
\* only when they do not
C5_CountsDecide ==
    (cmp.done /\ cmp.fn = "compare_summaries") =>
        LET o == cmp.original.summary
            r == cmp.rerun.summary
        IN IF HasCounts(o) /\ HasCounts(r)
           THEN cmp.result.rate_match
                    = (\A k \in {"total", "found", "missing", "mismatched"} : o[k] = r[k])
           ELSE cmp.result.rate_match = WithinTolerance(o.rate, r.rate)

\* C10: a rerun batch holds exactly one record per attempted history entry, in history
\* order: SKIPPED when no indexed summary lies within 5 seconds of the entry, FAILED when
\* the auditor exits (no session file to verify against), a comparison record otherwise;
\* and the batch is appended to the reproducibility ledger when the ledger can be written
C10_OneRecordPerEntry ==
    Reran =>
        /\ Len(last.batch) = Len(Attempted)
        /\ \A i \in 1..Len(last.batch) :
               LET rec == last.batch[i]
                   ts == Get(Attempted[i].entry, "timestamp", 0)
                   unmatched == \A j \in 1..Len(Index) : Abs(ts - Index[j].timestamp) > 5
               IN /\ rec.rerun_of = Attempted[i].run_num
                  /\ i > 1 => last.batch[i - 1].rerun_of < rec.rerun_of
                  /\ IF unmatched THEN "status" \in DOMAIN rec /\ rec.status = "SKIPPED"
                     ELSE IF sessionFiles = {}
                     THEN "status" \in DOMAIN rec /\ rec.status = "FAILED"
                     ELSE "status" \notin DOMAIN rec /\ "comparison" \in DOMAIN rec
        /\ last.outcome = "batch" =>
               /\ Len(rerunLedger) >= Len(last.batch)
               /\ SubSeq(rerunLedger, Len(rerunLedger) - Len(last.batch) + 1,
                         Len(rerunLedger)) = last.batch

\* C10: a batch of two records was saved, the first SKIPPED and the second a comparison
C10_Witness ==
    /\ Reran /\ last.outcome = "batch"
    /\ Len(last.batch) = 2
    /\ "status" \in DOMAIN last.batch[1] /\ last.batch[1].status = "SKIPPED"
    /\ "comparison" \in DOMAIN last.batch[2]
    /\ rerunLedger = last.batch

\* a direct call of compare_claims has returned
ComparedClaims == cmp.done /\ cmp.fn = "compare_claims"

\* the (category, claim) keys of a list of change records
ChangeKeys(changes) == {<<changes[i].category, changes[i].claim>> : i \in 1..Len(changes)}

Regressed == cmp.done /\ cmp.fn = "detect_regressions"

\* the rate of category c stored in a run
StoredRate(run, c) == run.categories[c].rate

\* C12: detect_regressions flags a category exactly when its current rate is lower than
\* its rate in the previous run, with the two rates as percentages; previous rates
\* 0.9, 0.9 and current rates 0.9, 0.6 flag exactly the second category, 90% -> 60%
C12_Regressions ==
    Regressed /\ "categories" \in DOMAIN cmp.previous =>
        /\ \A c \in DOMAIN cmp.current.categories :
               LET p == StoredRate(cmp.previous, c)
                   q == StoredRate(cmp.current, c)
               IN (RegressionLine(CATEGORY_SEVERITY(c), c, p, q) \in Range(cmp.result))
                      <=> (q.num * p.den < p.num * q.den)
        /\ Len(cmp.result)
               = Cardinality({c \in DOMAIN cmp.current.categories :
                                 StoredRate(cmp.current, c).num * StoredRate(cmp.previous, c).den
                                     < StoredRate(cmp.previous, c).num
                                           * StoredRate(cmp.current, c).den})
        /\ (/\ \A c \in DOMAIN cmp.previous.categories :
                   StoredRate(cmp.previous, c) = Ratio(9, 10)
            /\ StoredRate(cmp.current, "Tools Used") = Ratio(9, 10)
            /\ StoredRate(cmp.current, "Topics") = Ratio(3, 5))
               => cmp.result = <<"[MINOR] Topics: 90% -> 60%">>

\* C12: the call with previous rates 0.9, 0.9 and current rates 0.9, 0.6 has returned
C12_Witness ==
    /\ Regressed /\ "categories" \in DOMAIN cmp.previous
    /\ \A c \in DOMAIN cmp.previous.categories : StoredRate(cmp.previous, c) = Ratio(9, 10)
    /\ StoredRate(cmp.current, "Tools Used") = Ratio(9, 10)
    /\ StoredRate(cmp.current, "Topics") = Ratio(3, 5)
    /\ Len(cmp.result) = 1

\* C13: for the same previous and current run, the regression report (detect_regressions)
\* and the live audit (the regressions phase_post bundles) flag the same categories
C13_OneThreshold ==
    Regressed /\ "categories" \in DOMAIN cmp.previous =>
        {c \in DOMAIN cmp.current.categories :
            RegressionLine(CATEGORY_SEVERITY(c), c, StoredRate(cmp.previous, c),
                           StoredRate(cmp.current, c)) \in Range(cmp.result)}
        = {r.category : r \in Range(PostRegressions(<<cmp.previous>>, cmp.current))}

\* build_structured_results of the last audit (its timestamp left out)
LastStructured ==
    Structured(last.audit.text, last.audit.file, blacklist, last.audit.deep, 0, 0)

\* C14: a category without claims is reported with total 0, found 0 and rate exactly 1.0,
\* whatever the session file holds; this holds of every audit and of every stored record
C14_VacuousCategory ==
    /\ Audit =>
           \A c \in Range(Categories) :
               LET stats == LastStructured.categories[c]
               IN /\ stats.total = Len(last.audit.results[c])
                  /\ stats.total = 0 =>
                         stats.found = 0 /\ stats.rate = [num |-> 1, den |-> 1]
    /\ \A i \in 1..Len(Records) : \A c \in Range(Categories) :
           Records[i].categories[c].total = 0 =>
               /\ Records[i].categories[c].found = 0
               /\ Records[i].categories[c].rate = [num |-> 1, den |-> 1]

\* C14: an audit of a summary that names no tool against a session file that lists tools
C14_Witness ==
    /\ Audit
    /\ SummaryText[last.audit.text].words = {}
    /\ SessionFile[last.audit.file].tools_used = "Read, Edit, Bash"
    /\ LastStructured.categories["Tools Used"].total = 0
    /\ LastStructured.categories["Tools Used"].rate = [num |-> 1, den |-> 1]
    /\ LastStructured.summary.total > 0

\* C15: severity_weighted_rate lies in [0, 1], and it is 1.0 whenever every category's
\* rate is 1.0, the audit without any claim included
C15_WeightedRateRange ==
    Audit =>
        LET swr == LastStructured.summary.severity_weighted_rate
            cats == LastStructured.categories
        IN /\ swr.den > 0 /\ 0 <= swr.num /\ swr.num <= swr.den
           /\ (\A c \in Range(Categories) : cats[c].rate = [num |-> 1, den |-> 1])
                  => swr = [num |-> 1, den |-> 1]
           /\ (\A c \in Range(Categories) : Len(last.audit.results[c]) = 0)
                  => swr = [num |-> 1, den |-> 1]

\* C15: an audit of a summary without any claim
C15_Witness ==
    /\ Audit
    /\ \A c \in Range(Categories) : Len(last.audit.results[c]) = 0
    /\ LastStructured.summary.severity_weighted_rate = [num |-> 1, den |-> 1]

\* the weights of the categories: CRITICAL 4, MAJOR 3, MINOR 2, INFO 1
CategoryWeight ==
    ("File Paths" :> 4) @@ ("Functions/Classes" :> 4) @@ ("Tools Used" :> 3)
    @@ ("User Quotes" :> 3) @@ ("Topics" :> 2) @@ ("Turn Counts" :> 1)

\* the claims of category c the last audit found
FoundIn(c) ==
    Cardinality({i \in 1..Len(last.audit.results[c]) :
                    StartsWith(last.audit.results[c][i].status, "FOUND")})

\* C16: severity_weighted_rate is the sum of found_c * weight_c over the sum of
\* total_c * weight_c, with the fixed severity of each category and the fixed weights
C16_WeightedRate ==
    Audit =>
        LET swr == LastStructured.summary.severity_weighted_rate
            wf == SumOver(Categories, LAMBDA c : FoundIn(c) * CategoryWeight[c], 1)
            wt == SumOver(Categories,
                          LAMBDA c : Len(last.audit.results[c]) * CategoryWeight[c], 1)
        IN /\ wt > 0 => swr.num * wt = wf * swr.den
           /\ \A c \in Range(Categories) :
                  LastStructured.categories[c].severity
                      = CASE c \in {"File Paths", "Functions/Classes"} -> "CRITICAL"
                          [] c \in {"Tools Used", "User Quotes"} -> "MAJOR"
                          [] c = "Topics" -> "MINOR"
                          [] OTHER -> "INFO"

\* C16: an audit whose weighted rate differs from its plain rate
C16_Witness ==
    /\ Audit
    /\ LastStructured.summary.total > 0
    /\ LastStructured.summary.severity_weighted_rate # LastStructured.summary.rate
    /\ LastStructured.summary.severity_weighted_rate.num > 0

\* a direct call of match_entry_to_compaction has returned
Matched == cmp.done /\ cmp.fn = "match_entry_to_compaction"

\* the seconds between the entry's timestamp and an indexed summary's
Distance(info) == Abs(Get(cmp.entry, "timestamp", 0) - info.timestamp)

\* C17: match_entry_to_compaction returns the indexed summary with exactly the entry's
\* timestamp when there is one; otherwise an indexed summary closest to the entry's
\* timestamp, if that is at most 5 seconds away; and nothing when none is within 5 seconds
C17_ExactThenClosest ==
    Matched =>
        LET idx == cmp.index
            ts == Get(cmp.entry, "timestamp", 0)
            exact == {i \in 1..Len(idx) : idx[i].timestamp = ts}
            near == {i \in 1..Len(idx) : ts # 0 /\ Distance(idx[i]) <= 5}
        IN IF exact # {}
           THEN cmp.result.matched /\ cmp.result.timestamp = ts
           ELSE IF near # {}
           THEN /\ cmp.result.matched
                /\ \E i \in near : cmp.result = [matched |-> TRUE] @@ idx[i]
                /\ \A j \in 1..Len(idx) : Distance(cmp.result) <= Distance(idx[j])
           ELSE ~cmp.result.matched

\* C17: an entry 2 seconds from two indexed summaries and 6 from none got the first of them
C17_Witness ==
    /\ Matched
    /\ Get(cmp.entry, "timestamp", 0) = 12
    /\ Len(cmp.index) = 2
    /\ cmp.index[1].timestamp = 14 /\ cmp.index[2].timestamp = 10
    /\ cmp.result.matched /\ cmp.result.timestamp = 14

\* the names of the session files the archive offers: of a session with an enriched file
\* only the enriched one
Offered ==
    {SessionFile[f].name : f \in
        {f \in sessionFiles :
            \/ EndsWith(SessionFile[f].name, ".enriched.md")
            \/ \A g \in sessionFiles :
                   SessionFile[g].name
                       # SubSeq(SessionFile[f].name, 1, Len(SessionFile[f].name) - 3)
                         \o ".enriched.md"}}

\* name n is the first (in name order) of the offered names that contain s
FirstHolding(n, s) ==
    /\ n \in Offered /\ Contains(n, s)
    /\ \A m \in Offered : Contains(m, s) => ~StrLess(m, n)

C19_SkippedIndividually ==
    (cmp.done /\ cmp.fn \in {"load_audit_history", "find_compaction_summaries"}) =>
        LET parseable == {i \in 1..Len(cmp.lines) :
                              cmp.lines[i].kind \in {"record", "summary"}}
            nth(k) == CHOOSE i \in parseable :
                          Cardinality({j \in parseable : j <= i}) = k
        IN  /\ cmp.result.raised = ""
            /\ Len(cmp.result.value) = Cardinality(parseable)
            /\ \A k \in 1..Len(cmp.result.value) :
                   IF cmp.fn = "load_audit_history"
                   THEN cmp.result.value[k] = cmp.lines[nth(k)].rec
                   ELSE /\ cmp.result.value[k].line = nth(k)
                        /\ cmp.result.value[k].text = cmp.lines[nth(k)].text
                        /\ cmp.result.value[k].timestamp = cmp.lines[nth(k)].timestamp
                        /\ cmp.result.value[k].session_id = cmp.lines[nth(k)].session_id

\* C20: in every audit, before or after the deep-search pass, each turn-count claim is
\* FOUND exactly when the claimed number equals the turn count recorded in the target
\* session file, otherwise its status is MISMATCH and carries that recorded count; it
\* is never MISSING
C20_TurnCounts ==
    Audit =>
        LET counts == SummaryText[last.audit.text].counts
            actual == SessionFile[last.audit.file].turns
            results == last.audit.results["Turn Counts"]
        IN  /\ Len(results) = Len(counts)
            /\ \A i \in 1..Len(counts) :
                   /\ results[i].claim = IntToStr(counts[i]) \o " turns"
                   /\ results[i].status = "FOUND" <=> counts[i] = actual
                   /\ counts[i] # actual =>
                          results[i].status
                              = "MISMATCH (archive: " \o IntToStr(actual) \o " turns)"
                   /\ results[i].status # "MISSING"

\* C20: a deep audit of a summary claiming 68 turns against a session file that records
\* 71 turns and whose turn content holds the words "68 turns"
C20_Witness ==
    /\ Audit
    /\ last.audit.deep
    /\ SummaryText[last.audit.text].counts = <<68>>
    /\ SessionFile[last.audit.file].turns = 71
    /\ \E t \in 1..Len(SessionFile[last.audit.file].body) :
           Contains(SessionFile[last.audit.file].body[t].content, "68 turns")
    /\ last.audit.results["Turn Counts"][1].status = "MISMATCH (archive: 71 turns)"

\* C21: in the structured result of every audit, a category's found count is the number
\* of its claims that are FOUND or FOUND (deep), the run's found count is the sum over
\* the categories, and every claim record has location 'header' exactly when the claim
\* was FOUND against the header, 'deep' exactly when it was MISSING against the header
\* and upgraded by the deep search, and 'none' when it is MISSING or MISMATCH
C21_Provenance ==
    Audit =>
        LET S == LastStructured
            R == last.audit.results
            Succeeded(c) == {i \in 1..Len(R[c]) : R[c][i].status \in {"FOUND", "FOUND (deep)"}}
            recs(c) == SelectSeq(S.claims, LAMBDA r : r.category = c)
        IN  /\ S.summary.found
                   = SumOver(Categories, LAMBDA c : Cardinality(Succeeded(c)), 1)
            /\ \A c \in Range(Categories) :
                   /\ S.categories[c].found = Cardinality(Succeeded(c))
                   /\ Len(recs(c)) = Len(R[c])
                   /\ \A i \in 1..Len(R[c]) :
                          /\ recs(c)[i].claim = R[c][i].claim
                          /\ recs(c)[i].location \in {"header", "deep", "none"}
                          /\ recs(c)[i].location = "header"
                                 <=> HeaderResults[c][i].status = "FOUND"
                          /\ recs(c)[i].location = "deep"
                                 <=> /\ HeaderResults[c][i].status = "MISSING"
                                     /\ R[c][i].status = "FOUND (deep)"
                          /\ (R[c][i].status = "MISSING"
                                \/ StartsWith(R[c][i].status, "MISMATCH"))
                                 => recs(c)[i].location = "none"

\* C21: an audit whose structured result holds a header match, a deep match, a MISSING
\* claim and a MISMATCH claim, with both kinds of match counted as found
C21_Witness ==
    /\ Audit
    /\ \E a, b, c, d \in 1..Len(LastStructured.claims) :
           /\ LastStructured.claims[a].location = "header"
           /\ LastStructured.claims[b].location = "deep"
           /\ LastStructured.claims[b].status = "FOUND"
           /\ LastStructured.claims[c].status = "MISSING"
           /\ LastStructured.claims[d].status = "MISMATCH"
           /\ LastStructured.claims[a].category = LastStructured.claims[b].category
           /\ LastStructured.categories[LastStructured.claims[a].category].found >= 2

\* C22: the six extract_* functions applied twice to the same summary text yield the
\* same claim list in every category, whatever happens outside the text between the
\* two applications
C22_Deterministic ==
    (cmp.fn = "extract_claims" /\ cmp.done) =>
        \A c \in Range(Categories) : cmp.result[c] = cmp.first[c]

\* C23: in every audit, before the deep pass, a claimed path is FOUND exactly when its
\* lower-cased, slash-normalized form is a substring of the normalized files-referenced
\* field of the target session file, or its final path segment is longer than 3
\* characters and is such a substring; otherwise it is MISSING
C23_FileMatch ==
    Audit =>
        LET claimed == extract_file_claims(SummaryText[last.audit.text])
            archive_norm == NormPath(SessionFile[last.audit.file].files_referenced)
            R == HeaderResults["File Paths"]
            Segment(f) == AfterLast(RStrip(NormPath(f), "/"), "/")
        IN  /\ Len(R) = Len(claimed)
            /\ \A i \in 1..Len(claimed) :
                   /\ R[i].claim = claimed[i]
                   /\ R[i].status \in {"FOUND", "MISSING"}
                   /\ R[i].status = "FOUND"
                          <=> \/ Contains(archive_norm, NormPath(claimed[i]))
                              \/ /\ Len(Segment(claimed[i])) > 3
                                 /\ Contains(archive_norm, Segment(claimed[i]))

\* C23: an audit of the claim /home/user/project/tool.py against a session file whose
\* files-referenced field is tool.py alone, found by its filename
C23_Witness ==
    /\ Audit
    /\ SessionFile[last.audit.file].files_referenced = "tool.py"
    /\ \E i \in 1..Len(HeaderResults["File Paths"]) :
           /\ HeaderResults["File Paths"][i].claim = "/home/user/project/tool.py"
           /\ HeaderResults["File Paths"][i].status = "FOUND"

\* the lower-cased concatenation of the user turns verify_quotes was called with
QuotedText ==
    Lower(JoinFrom(MapSeq(SelectSeq(cmp.turns, LAMBDA t : t.role = "user"),
                          LAMBDA t : t.content), " ", 1))

\* the quote is an exact substring of the user text
ExactHit(q) == Contains(QuotedText, Lower(q))

\* at least 60% (rounded up, minimum 1) of the quote's words longer than 4 characters
\* appear in the user text
OverlapHit(q) ==
    LET words == SelectSeq(Words(Lower(q)), LAMBDA w : Len(w) > 4)
        hits == Cardinality({i \in 1..Len(words) : Contains(QuotedText, words[i])})
    IN  hits >= 1 /\ 10 * hits >= 6 * Len(words)

\* C24, as stated: a quote is FOUND exactly when it is an exact substring of the user
\* text, or its first 40 characters are a substring, or its words overlap; it is MISSING
\* only if all three fail
C24_AnyStrategy ==
    (cmp.fn = "verify_quotes" /\ cmp.done) =>
        \A i \in 1..Len(cmp.quotes) :
            /\ cmp.result[i].status \in {"FOUND", "MISSING"}
            /\ cmp.result[i].status = "FOUND"
                   <=> \/ ExactHit(cmp.quotes[i])
                       \/ Contains(QuotedText, Prefix(Lower(cmp.quotes[i]), 40))
                       \/ OverlapHit(cmp.quotes[i])

\* C24, amended: the second strategy takes the quote's first 40 characters without
\* their leading and trailing whitespace, and applies only when more than 10
\* characters remain
C24_AnyStrategyTrimmed ==
    (cmp.fn = "verify_quotes" /\ cmp.done) =>
        /\ Len(cmp.result) = Len(cmp.quotes)
        /\ \A i \in 1..Len(cmp.quotes) :
               /\ cmp.result[i].status \in {"FOUND", "MISSING"}
               /\ cmp.result[i].status = "FOUND"
                      <=> \/ ExactHit(cmp.quotes[i])
                          \/ /\ Len(Strip(Prefix(Lower(cmp.quotes[i]), 40))) > 10
                             /\ Contains(QuotedText, Strip(Prefix(Lower(cmp.quotes[i]), 40)))
                          \/ OverlapHit(cmp.quotes[i])

\* C24: a call in which one quote is found by its first 40 characters alone and another
\* by its words alone
C24_Witness ==
    /\ cmp.fn = "verify_quotes" /\ cmp.done
    /\ ~ExactHit(cmp.quotes[1]) /\ ~OverlapHit(cmp.quotes[1])
    /\ Contains(QuotedText, Prefix(Lower(cmp.quotes[1]), 40))
    /\ cmp.result[1].status = "FOUND"
    /\ ~ExactHit(cmp.quotes[2]) /\ OverlapHit(cmp.quotes[2])
    /\ ~Contains(QuotedText, Prefix(Lower(cmp.quotes[2]), 40))
    /\ cmp.result[2].status = "FOUND"

C26_FivePoints ==
    (cmp.fn = "phase_post_regressions" /\ cmp.done) =>
        \A c \in DOMAIN cmp.current.categories \cap DOMAIN cmp.previous.categories :
            LET prev == cmp.previous.categories[c].rate
                curr == cmp.current.categories[c].rate
            IN  (\E r \in Range(cmp.result) : r.category = c)
                    <=> 100 * (prev.num * curr.den - curr.num * prev.den)
                            > 5 * prev.den * curr.den

\* C27: a step removes the pending ground-truth file only if the same step has written
\* the bundled report that holds the ground truth; when the report could not be written
\* the pending file is still there
C27_PendingKept ==
    [][(pending /\ ~pending') =>
           /\ Len(reports') = Len(reports) + 1
           /\ reports'[Len(reports')].ground_truth]_vars

\* C28: in the structured result of every audit and in every stored record, each
\* category has total = found + missing + mismatched, the run summary's total, found,
\* missing and mismatched are the sums of the categories' counts, and the claims list
\* has as many entries as the summary total
C28_CountsConsistent ==
    \A S \in (IF Audit THEN {LastStructured} ELSE {}) \cup Range(Records) :
        /\ \A c \in Range(Categories) :
               /\ S.categories[c].total
                      = S.categories[c].found + S.categories[c].missing
                        + S.categories[c].mismatched
               /\ S.categories[c].total
                      = Cardinality({i \in 1..Len(S.claims) : S.claims[i].category = c})
               /\ S.categories[c].found
                      = Cardinality({i \in 1..Len(S.claims) :
                                        S.claims[i].category = c
                                        /\ S.claims[i].status = "FOUND"})
        /\ S.summary.total = SumOver(Categories, LAMBDA c : S.categories[c].total, 1)
        /\ S.summary.found = SumOver(Categories, LAMBDA c : S.categories[c].found, 1)
        /\ S.summary.missing = SumOver(Categories, LAMBDA c : S.categories[c].missing, 1)
        /\ S.summary.mismatched
               = SumOver(Categories, LAMBDA c : S.categories[c].mismatched, 1)
        /\ Len(S.claims) = S.summary.total

\* C28: an audit whose structured result holds found, missing and mismatched claims in
\* several categories
C28_Witness ==
    /\ Audit
    /\ LastStructured.summary.found > 0
    /\ LastStructured.summary.missing > 0
    /\ LastStructured.summary.mismatched > 0
    /\ Cardinality({c \in Range(Categories) : LastStructured.categories[c].total > 0}) >= 3
    /\ Len(LastStructured.claims) = LastStructured.summary.total

\* C29: in every rerun batch, an entry whose compaction summary is still in a transcript
\* and whose recorded archive_file is still in the archive is verified again against
\* that same session file, whatever files the archive has gained since
C29_SameArchiveFile ==
    Reran =>
        \A i \in 1..Len(last.batch) :
            Resolvable(Attempted[i].entry) =>
                LET match == match_entry_to_compaction(Attempted[i].entry, Index)
                    rerun == execute_rerun(match, transcripts, archiveDir, sessionFiles,
                                           blacklist, 0)
                IN  /\ match.matched
                    /\ rerun.ok
                    /\ rerun.structured.archive_file = Attempted[i].entry.archive_file

\* C30: when both runs carry per-claim data, the outcome of compare_claims partitions
\* the distinct (category, claim) keys of the two runs: the keys of upgraded,
\* downgraded, new_claims and removed_claims are listed once each and in one list only,
\* none of them is an unchanged key, and unchanged plus the four lengths is the number
\* of distinct keys
C30_Partition ==
    (ComparedClaims /\ cmp.original.claims # <<>> /\ cmp.rerun.claims # <<>>) =>
        LET o == cmp.original.claims
            r == cmp.rerun.claims
            d == cmp.result
            lists == <<d.upgraded, d.downgraded, d.new_claims, d.removed_claims>>
            same == {k \in ClaimKeys(o) \cap ClaimKeys(r) :
                        ClaimOf(o, k).status = ClaimOf(r, k).status}
        IN  /\ d.unchanged + Len(d.upgraded) + Len(d.downgraded)
                   + Len(d.new_claims) + Len(d.removed_claims)
                   = Cardinality(ClaimKeys(o) \cup ClaimKeys(r))
            /\ d.unchanged = Cardinality(same)
            /\ \A n \in 1..4 :
                   /\ Cardinality(ChangeKeys(lists[n])) = Len(lists[n])
                   /\ ChangeKeys(lists[n]) \cap same = {}
                   /\ \A m \in 1..4 :
                          m # n => ChangeKeys(lists[n]) \cap ChangeKeys(lists[m]) = {}
            /\ same \cup UNION {ChangeKeys(lists[n]) : n \in 1..4}
                   = ClaimKeys(o) \cup ClaimKeys(r)

\* C30: a comparison of a run that lists the same turn-count claim twice with a run that
\* holds it once with another status and holds a claim the first run lacks
C30_Witness ==
    /\ ComparedClaims
    /\ Len(cmp.original.claims) = 2 /\ Cardinality(ClaimKeys(cmp.original.claims)) = 1
    /\ Len(cmp.rerun.claims) = 2 /\ Cardinality(ClaimKeys(cmp.rerun.claims)) = 2
    /\ Len(cmp.result.new_claims) = 1
    /\ Len(cmp.result.upgraded) + Len(cmp.result.downgraded) = 1
    /\ cmp.result.unchanged = 0

=============================================================================
